---- MODULE Spec2Model ----
(***************************************************************************)
(* Model of the hierarchical spline inner-optimization core of pyPESTO:    *)
(*   - SplineInnerSolver and the module functions of                       *)
(*     pypesto/hierarchical/spline_approximation/solver.py                 *)
(*   - OptimalScalingAmiciCalculator.__call__                              *)
(*                                                                         *)
(* Numbers.  The code computes with floating point numbers; the model      *)
(* computes with exact rationals [n |-> numerator, d |-> denominator > 0]  *)
(* in lowest terms, so that two equal numbers are equal records.           *)
(* +inf and NaN are the records Inf and NaN below.                         *)
(*                                                                         *)
(* Units.  The simulation axis is measured in units of MIN_SIM_RANGE / 2,  *)
(* so that the program constant MIN_SIM_RANGE is the number 2.             *)
(***************************************************************************)
EXTENDS Integers, Sequences, FiniteSets, TLC

VARIABLES
    pc,        \* which operation of the specification at hand has run
    basesIn,   \* arguments of _rescale_spline_bases: [sim_all, N]
    basesOut,  \* its return value: [delta_c, c, n]
    objIn,     \* arguments of the inner objective functions
    objOut,    \* their return values: [obj, gradient]
    problem,   \* the SplineInnerProblem: an index into Problems
    value,     \* InnerParameter.value of every group, in index order
    snapshot,  \* the fields of every group dictionary that solve() overwrites
    minimized, \* per group, what the last solve() handed to scipy's minimize
               \* (x0, lb, ub) and the result it returned (x, fun, jac, success)
    solver,    \* the options of the SplineInnerSolver called last
    x_inner_opt, \* argument of calculate_obj_function: the list of results
    obj_function, \* its outcome: [obj, warned, raised]
    calculator, \* the fields of the OptimalScalingAmiciCalculator
    call,      \* the arguments and the outcome of its last __call__
    args,      \* arguments of the function or constructor called on its own
    ret        \* what that call returned or raised, and what it left behind

basesVars == <<basesIn, basesOut>>
objVars == <<objIn, objOut>>
solveVars == <<problem, value, snapshot, minimized, solver>>
objFunVars == <<x_inner_opt, obj_function>>
calcVars == <<calculator, call>>
fnVars == <<args, ret>>
vars == <<pc, basesIn, basesOut, objIn, objOut,
          problem, value, snapshot, minimized, solver,
          x_inner_opt, obj_function, calculator, call, args, ret>>

(***************************************************************************)
(* Exact rational arithmetic                                               *)
(***************************************************************************)
Abs(x) == IF x < 0 THEN -x ELSE x

RECURSIVE GCD(_, _)
GCD(a, b) == IF b = 0 THEN a ELSE GCD(b, a % b)

\* the rational num/den in lowest terms with a positive denominator; as in
\* float arithmetic num/0 is +inf or -inf by the sign of num, and 0/0 is NaN:
\* the records [n |-> 1, d |-> 0], [n |-> -1, d |-> 0] and [n |-> 0, d |-> 0]
Q(num, den) ==
    LET g == GCD(Abs(num), Abs(den))
        sgn == IF den < 0 THEN -1 ELSE 1
    IN  IF g = 0 THEN [n |-> 0, d |-> 0]
        ELSE [n |-> sgn * (num \div g), d |-> sgn * (den \div g)]

Rat(i) == [n |-> i, d |-> 1]
Zero == Rat(0)
RAdd(a, b) ==
    IF a.d = 0 /\ a = b THEN a                     \* inf + inf
    ELSE Q(a.n * b.d + b.n * a.d, a.d * b.d)
RSub(a, b) ==
    IF a.d = 0 /\ b.d = 0 /\ a.n = -b.n THEN a     \* inf - (-inf)
    ELSE Q(a.n * b.d - b.n * a.d, a.d * b.d)
RMul(a, b) == Q(a.n * b.n, a.d * b.d)
RDiv(a, b) == Q(a.n * b.d, a.d * b.n)
RNeg(a) == [n |-> -a.n, d |-> a.d]
RLt(a, b) == a.n * b.d < b.n * a.d
RLe(a, b) == a.n * b.d <= b.n * a.d
RSq(a) == RMul(a, a)
\* np.ceil: the least integer >= a
RCeil(a) == -((-a.n) \div a.d)

\* index sets of the code's arrays: Python's range(len)
Range(len) == 0 .. (len - 1)

(***************************************************************************)
(* Bounds of the model                                                     *)
(***************************************************************************)
MaxK == 3          \* most observations of a group
MaxN == 3          \* most spline parameters of a group
MaxSim == 4        \* simulations range over MinSim .. MaxSim
MinSim == 1 - MaxSim

(***************************************************************************)
(* The values of the variables a specification does not use                *)
(***************************************************************************)
NoBasesIn == [sim_all |-> <<>>, N |-> 2]
NoBases == [delta_c |-> Zero, c |-> <<>>, n |-> <<>>]
BasesUnused == basesIn = NoBasesIn /\ basesOut = NoBases

NoObjIn == [s |-> <<>>, sim_all |-> <<>>, measurements |-> <<>>,
            sigma |-> <<>>, N |-> 2, n |-> <<>>]
NoObjOut == [delta_c |-> Zero, c |-> <<>>, obj |-> Zero, gradient |-> <<>>]
ObjUnused == objIn = NoObjIn /\ objOut = NoObjOut

SolveUnused ==
    /\ problem = 0
    /\ value = <<>>
    /\ snapshot = <<>>
    /\ minimized = <<>>
    /\ solver = [use_minimal_difference |-> TRUE]

\* +inf and NaN, in the shape of the rationals
Inf == [n |-> 1, d |-> 0]
NaN == [n |-> 0, d |-> 0]

NoObjFunction == [obj |-> Zero, warned |-> FALSE, raised |-> FALSE]

ObjFunUnused == x_inner_opt = <<>> /\ obj_function = NoObjFunction

NoCall == [ sensi_orders |-> {}, mode |-> "MODE_FUN", x_ids |-> 0,
            status |-> <<>>, add_sigma_residuals |-> FALSE,
            ssigma |-> FALSE, known_least_squares_safe |-> FALSE,
            raised |-> FALSE, fval |-> Zero, grad |-> <<>>,
            solved |-> FALSE, before |-> <<>>, inner_parameters |-> <<>>,
            invoked |-> {} ]

\* The values of the inner problem's InnerParameters before any inner solve
DummyValues == << [n |-> 0, d |-> 1], [n |-> 0, d |-> 1] >>

NewCalculator ==
    [known_least_squares_safe |-> FALSE, inner_parameters |-> DummyValues]

CalcUnused ==
    /\ calculator = NewCalculator
    /\ call = NoCall

FnUnused == args = <<>> /\ ret = <<>>

\* For the specifications of one function called on its own
OthersUnused ==
    BasesUnused /\ ObjUnused /\ SolveUnused /\ ObjFunUnused /\ CalcUnused

otherVars == <<basesVars, objVars, solveVars, objFunVars, calcVars>>

(***************************************************************************)
(* SplineInnerSolver._rescale_spline_bases                                 *)
(***************************************************************************)
MIN_SIM_RANGE == 2

\* np.argmin / np.argmax: the first index (0-based) holding the extreme
ArgMin(v) ==
    CHOOSE i \in Range(Len(v)) :
        /\ \A j \in Range(Len(v)) : RLe(v[i + 1], v[j + 1])
        /\ \A j \in Range(i) : RLt(v[i + 1], v[j + 1])

ArgMax(v) ==
    CHOOSE i \in Range(Len(v)) :
        /\ \A j \in Range(Len(v)) : RLe(v[j + 1], v[i + 1])
        /\ \A j \in Range(i) : RLt(v[j + 1], v[i + 1])

\* (mutant) np.linspace with endpoint=False: the step is (hi-lo)/num
LinspaceOpenEnd(lo, hi, num) ==
    [j \in Range(num) |->
        RAdd(lo, RMul(Rat(j), RDiv(RSub(hi, lo), Rat(num))))]

\* np.linspace(lo, hi, num): num points, the first lo, the step (hi-lo)/(num-1)
Linspace(lo, hi, num) ==
    [j \in Range(num) |->
        RAdd(lo, RMul(Rat(j), RDiv(RSub(hi, lo), Rat(num - 1))))]

\* np.floor: the greatest integer <= a
RFloor(a) == a.n \div a.d

\* (mutant) the interval index rounded down instead of up
FloorInterval(y, c, delta_c) == RFloor(RDiv(RSub(y, c[0]), delta_c)) + 1

\* n[i] = np.ceil((sim_all[i] - c[0]) / delta_c) + 1
CeilInterval(y, c, delta_c) == RCeil(RDiv(RSub(y, c[0]), delta_c)) + 1

\* (mutant) a clamp that sends the last interval one past the end
ClampPastTheEnd(ni, N) == IF ni >= N THEN N + 1 ELSE ni

\* the clamp "if n[i] > N: n[i] = N" that follows every assignment
ClampToN(ni, N) == IF ni > N THEN N ELSE ni

\* the observation sim_all[i] for a 0-based index i (sequences are 1-based)
At(v, i) == v[i + 1]

\* (mutant) the bases without the branch for simulations closer than
\* MIN_SIM_RANGE
RescaleWithoutMinimalRange(sim_all, N) ==
    LET min_idx == ArgMin(sim_all)
        max_idx == ArgMax(sim_all)
        min_all == At(sim_all, min_idx)
        max_all == At(sim_all, max_idx)
        delta_c == RDiv(RSub(max_all, min_all), Rat(N - 1))
        c == Linspace(min_all, max_all, N)
    IN  [delta_c |-> delta_c,
         c |-> c,
         n |-> [i \in Range(Len(sim_all)) |->
                  IF i = max_idx THEN N ELSE 1]]

RescaleSplineBases(sim_all, N) ==
    LET min_idx == ArgMin(sim_all)
        max_idx == ArgMax(sim_all)
        min_all == At(sim_all, min_idx)
        max_all == At(sim_all, max_idx)
        half == RDiv(Rat(MIN_SIM_RANGE), Rat(2))
    IN  IF RLt(RSub(max_all, min_all), Rat(MIN_SIM_RANGE))
        THEN \* simulations very close to each other
            LET average_value == RDiv(RAdd(max_all, min_all), Rat(2))
                delta_c == RDiv(Rat(MIN_SIM_RANGE), Rat(N - 1))
                c == IF RLt(average_value, half)
                     THEN Linspace(Zero, Rat(MIN_SIM_RANGE), N)
                     ELSE Linspace(RSub(average_value, half),
                                   RAdd(average_value, half), N)
            IN  [delta_c |-> delta_c,
                 c |-> c,
                 n |-> [i \in Range(Len(sim_all)) |->
                          ClampToN(CeilInterval(At(sim_all, i), c, delta_c), N)]]
        ELSE \* simulations sufficiently apart
            LET delta_c == RDiv(RSub(max_all, min_all), Rat(N - 1))
                c == Linspace(min_all, max_all, N)
            IN  [delta_c |-> delta_c,
                 c |-> c,
                 n |-> [i \in Range(Len(sim_all)) |->
                          ClampToN(IF i = max_idx THEN N
                                   ELSE IF i = min_idx THEN 1
                                   ELSE CeilInterval(At(sim_all, i), c, delta_c),
                                   N)]]

(***************************************************************************)
(* The inner objective and its gradient (module functions of solver.py)    *)
(***************************************************************************)
Min2(a, b) == IF a < b THEN a ELSE b

\* np.sum(s[:i]) for 0 <= i: the sum of s[0], ..., s[i-1]
RECURSIVE SumPrefix(_, _)
SumPrefix(s, i) == IF i <= 0 THEN Zero ELSE RAdd(SumPrefix(s, i - 1), s[i - 1])

\* the number of tuples zip(sim_all, measurements, sigma, n) yields
ZipLen(sim_all, measurements, sigma, n) ==
    Min2(Min2(Len(sim_all), Len(measurements)), Min2(Len(sigma), Len(n)))

\* Interpolation that measures y_k from 0 instead of from the breakpoint
\* below it (not what the code does)
InterpolateFromZero(s, y_k, i, delta_c, c) ==
    RAdd(RDiv(RMul(y_k, s[i]), delta_c), SumPrefix(s, i))

\* (y_k - c[i-1]) * s[i] / delta_c + sum_s: the spline at y_k, interval i
Interpolate(s, y_k, i, delta_c, c) ==
    RAdd(RDiv(RMul(RSub(y_k, c[i - 1]), s[i]), delta_c), SumPrefix(s, i))

\* (mutant) a pass that takes the height of the breakpoint below y_k
ObjectiveTermAtBreakpoint(s, y_k, z_k, sigma_k, n_k, N, delta_c, c) ==
    LET i == n_k - 1
    IN  RMul(RDiv(Rat(1), RSq(sigma_k)),
             RSq(RSub(z_k, IF i = 0 THEN s[i] ELSE SumPrefix(s, i))))

\* one pass of the loop body of calculate_objective_function
ObjectiveTerm(s, y_k, z_k, sigma_k, n_k, N, delta_c, c) ==
    LET i == n_k - 1
        weight_k == RDiv(Rat(1), RSq(sigma_k))
    IN  IF i = 0 THEN RMul(weight_k, RSq(RSub(z_k, s[i])))
        ELSE IF i = N THEN RMul(weight_k, RSq(RSub(z_k, SumPrefix(s, i))))
        ELSE RMul(weight_k, RSq(RSub(z_k, Interpolate(s, y_k, i, delta_c, c))))

RECURSIVE ObjectiveLoop(_, _, _, _, _, _, _, _, _)
ObjectiveLoop(k, s, sim_all, measurements, sigma, N, delta_c, c, n) ==
    IF k = 0 THEN Zero
    ELSE RAdd(ObjectiveLoop(k - 1, s, sim_all, measurements, sigma, N, delta_c, c, n),
              ObjectiveTerm(s, sim_all[k], measurements[k], sigma[k], n[k],
                            N, delta_c, c))

CalculateObjectiveFunction(s, sim_all, measurements, sigma, N, delta_c, c, n) ==
    RDiv(ObjectiveLoop(ZipLen(sim_all, measurements, sigma, n),
                       s, sim_all, measurements, sigma, N, delta_c, c, n),
         Rat(2))

\* gradient[i] += at_i and gradient[:i] += below_i
AddToGradient(gradient, N, i, at_i, below_i) ==
    [j \in Range(N) |->
        IF j = i THEN RAdd(gradient[j], at_i)
        ELSE IF j < i THEN RAdd(gradient[j], below_i)
        ELSE gradient[j]]

\* (mutant) the gradient without the slope factor (y_k - c[i-1]) / delta_c
\* in component i
GradientStepNoSlope(gradient, s, y_k, z_k, sigma_k, n_k, N, delta_c, c) ==
    LET i == n_k - 1
        weight_k == RDiv(Rat(1), RSq(sigma_k))
    IN  IF i = 0
        THEN AddToGradient(gradient, N, i, RMul(weight_k, RSub(s[i], z_k)), Zero)
        ELSE IF i = N
        THEN AddToGradient(gradient, N, i, Zero,
                           RMul(weight_k, RSub(SumPrefix(s, i), z_k)))
        ELSE AddToGradient(gradient, N, i,
                 RMul(weight_k, RSub(Interpolate(s, y_k, i, delta_c, c), z_k)),
                 RMul(weight_k, RSub(Interpolate(s, y_k, i, delta_c, c), z_k)))

\* one pass of the loop body of calculate_inner_gradient
GradientStep(gradient, s, y_k, z_k, sigma_k, n_k, N, delta_c, c) ==
    LET i == n_k - 1
        weight_k == RDiv(Rat(1), RSq(sigma_k))
    IN  IF i = 0
        THEN AddToGradient(gradient, N, i, RMul(weight_k, RSub(s[i], z_k)), Zero)
        ELSE IF i = N
        THEN AddToGradient(gradient, N, i, Zero,
                           RMul(weight_k, RSub(SumPrefix(s, i), z_k)))
        ELSE AddToGradient(gradient, N, i,
                 RDiv(RMul(RMul(weight_k,
                                RSub(Interpolate(s, y_k, i, delta_c, c), z_k)),
                           RSub(y_k, c[i - 1])),
                      delta_c),
                 RMul(weight_k, RSub(Interpolate(s, y_k, i, delta_c, c), z_k)))

RECURSIVE GradientLoop(_, _, _, _, _, _, _, _, _)
GradientLoop(k, s, sim_all, measurements, sigma, N, delta_c, c, n) ==
    IF k = 0 THEN [j \in Range(N) |-> Zero]
    ELSE GradientStep(
             GradientLoop(k - 1, s, sim_all, measurements, sigma, N, delta_c, c, n),
             s, sim_all[k], measurements[k], sigma[k], n[k], N, delta_c, c)

CalculateInnerGradient(s, sim_all, measurements, sigma, N, delta_c, c, n) ==
    GradientLoop(ZipLen(sim_all, measurements, sigma, n),
                 s, sim_all, measurements, sigma, N, delta_c, c, n)

(***************************************************************************)
(* Specification SpecObj: the inner objective and gradient on every        *)
(* candidate s, group data and interval assignment within the bounds; the  *)
(* breakpoints are those of _rescale_spline_bases for the simulation, as   *)
(* at every call site                                                      *)
(***************************************************************************)
ObjMaxN == 3       \* most spline parameters of a group in SpecObj

ObjObservationCounts == {1, 2}

ObjSimValues == {Rat(0), Rat(1), Rat(3)}
ObjMeasurements == {Rat(0), Rat(2)}
ObjSigmas == {Rat(1), Rat(2)}
ObjSplineValues == {Rat(0), Rat(1)}

ObjInputs ==
    UNION {
        [s : [Range(N) -> ObjSplineValues],
         sim_all : [1 .. K -> ObjSimValues],
         measurements : [1 .. K -> ObjMeasurements],
         sigma : [1 .. K -> ObjSigmas],
         N : {N},
         n : [1 .. K -> 1 .. N]] : <<N, K>> \in (2 .. ObjMaxN) \X ObjObservationCounts}

InitObj ==
    /\ pc = "input"
    /\ objIn \in ObjInputs
    /\ objOut = NoObjOut
    /\ BasesUnused
    /\ SolveUnused
    /\ ObjFunUnused
    /\ CalcUnused
    /\ FnUnused

\* calculate_objective_function on the group data of objIn, at s
ObjectiveAt(s, delta_c, c) ==
    CalculateObjectiveFunction(s, objIn.sim_all, objIn.measurements,
                               objIn.sigma, objIn.N, delta_c, c, objIn.n)

\* the breakpoints are rescaled to the simulation, then the objective and
\* its gradient are evaluated at s (the wrappers of _optimize_spline)
Evaluate ==
    /\ pc = "input"
    /\ pc' = "evaluated"
    /\ \E bases \in {RescaleSplineBases(objIn.sim_all, objIn.N)} :
          objOut' = [delta_c |-> bases.delta_c,
                     c |-> bases.c,
                     obj |-> ObjectiveAt(objIn.s, bases.delta_c, bases.c),
                     gradient |->
                         CalculateInnerGradient(objIn.s, objIn.sim_all,
                             objIn.measurements, objIn.sigma, objIn.N,
                             bases.delta_c, bases.c, objIn.n)]
    /\ UNCHANGED <<objIn, basesVars, solveVars, objFunVars, calcVars, fnVars>>

NextObj == Evaluate

SpecObj == InitObj /\ [][NextObj]_vars

(***************************************************************************)
(* Properties of the inner objective functions (checked under SpecObj)     *)
(***************************************************************************)
Evaluated == pc = "evaluated"

\* s + h * e_j
Shift(s, j, h) == [s EXCEPT ![j] = RAdd(s[j], h)]

CentralDifference(j, h) ==
    RDiv(RSub(ObjectiveAt(Shift(objIn.s, j, h), objOut.delta_c, objOut.c),
              ObjectiveAt(Shift(objIn.s, j, RNeg(h)), objOut.delta_c, objOut.c)),
         RMul(Rat(2), h))

\* C7: for every candidate s, data with sigma # 0 and interval assignment
\* with n[k] in 1..N, component j of calculate_inner_gradient equals the
\* central finite difference of calculate_objective_function in direction
\* e_j (with step h = 1; the objective is quadratic in s).
C7_GradientIsCentralDifference ==
    Evaluated =>
        \A j \in Range(objIn.N) :
            objOut.gradient[j] = CentralDifference(j, Rat(1))

\* a gradient with a non-zero component, from observations in the first, an
\* inner and the last interval
C7_Witness ==
    /\ Evaluated
    /\ objIn.N = 3
    /\ \E k1, k2 \in DOMAIN objIn.n : objIn.n[k1] = 2 /\ objIn.n[k2] = 3
    /\ \E j \in Range(objIn.N) : objOut.gradient[j] # Zero

(***************************************************************************)
(* Specification SpecBases: _rescale_spline_bases on every simulation      *)
(* vector of 1..MaxK observations and every N in 2..MaxN                   *)
(***************************************************************************)
SimValues == {Rat(v) : v \in MinSim .. MaxSim}

SimVectors == UNION {[1 .. k -> SimValues] : k \in 1 .. MaxK}

InitBases ==
    /\ pc = "input"
    /\ basesIn \in [sim_all : SimVectors, N : 2 .. MaxN]
    /\ basesOut = NoBases
    /\ ObjUnused
    /\ SolveUnused
    /\ ObjFunUnused
    /\ CalcUnused
    /\ FnUnused

Rescale ==
    /\ pc = "input"
    /\ pc' = "rescaled"
    /\ basesOut' = RescaleSplineBases(basesIn.sim_all, basesIn.N)
    /\ UNCHANGED <<basesIn, objVars, solveVars, objFunVars, calcVars, fnVars>>

NextBases == Rescale

SpecBases == InitBases /\ [][NextBases]_vars

(***************************************************************************)
(* Properties of _rescale_spline_bases (checked under SpecBases)           *)
(***************************************************************************)
Rescaled == pc = "rescaled"

SimOf(i) == At(basesIn.sim_all, i)
Observations == Range(Len(basesIn.sim_all))

\* the least and the greatest simulation, stated without argmin/argmax
Lo == CHOOSE x \in {SimOf(i) : i \in Observations} :
          \A i \in Observations : RLe(x, SimOf(i))
Hi == CHOOSE x \in {SimOf(i) : i \in Observations} :
          \A i \in Observations : RLe(SimOf(i), x)

NonDegenerate == ~RLt(RSub(Hi, Lo), Rat(MIN_SIM_RANGE))

\* C4 (as claimed): for every simulation vector of any sign, degenerate or
\* not, and every N >= 2, every interval index n[k] returned by
\* _rescale_spline_bases lies in 1..N.
C4_IntervalIndexInRange ==
    Rescaled => \A i \in Observations : basesOut.n[i] \in 1 .. basesIn.N

\* C5: for a non-degenerate simulation range and N >= 2 the breakpoints are
\* strictly increasing, consecutive ones are delta_c = (hi - lo)/(N-1) apart,
\* the first is lo = min(sim) and the last is hi = max(sim).
C5_BreakpointsEvenlySpaced ==
    (Rescaled /\ NonDegenerate) =>
        LET N == basesIn.N
            c == basesOut.c
        IN  /\ DOMAIN c = Range(N)
            /\ basesOut.delta_c = RDiv(RSub(Hi, Lo), Rat(N - 1))
            /\ c[0] = Lo
            /\ c[N - 1] = Hi
            /\ \A j \in Range(N - 1) :
                  /\ RLt(c[j], c[j + 1])
                  /\ RSub(c[j + 1], c[j]) = basesOut.delta_c

\* a non-degenerate range with three breakpoints has been rescaled
C5_Witness == Rescaled /\ NonDegenerate /\ basesIn.N = 3 /\ Lo # Rat(0)

IsExtreme(i) == i = ArgMin(basesIn.sim_all) \/ i = ArgMax(basesIn.sim_all)

\* C6 (as claimed, breakpoints c[0..N-1]): every observation k that is not at
\* an extreme satisfies c[n[k]-1] <= y[k] <= c[n[k]].  Stated for the
\* non-degenerate ranges and the observations for which both breakpoints
\* exist (1 <= n[k] <= N-1).
C6_ContainmentAsClaimed ==
    (Rescaled /\ NonDegenerate) =>
        \A i \in Observations :
            (~IsExtreme(i) /\ basesOut.n[i] \in 1 .. (basesIn.N - 1)) =>
                /\ RLe(basesOut.c[basesOut.n[i] - 1], SimOf(i))
                /\ RLe(SimOf(i), basesOut.c[basesOut.n[i]])

\* C6 (amended): every observation k with n[k] >= 2 satisfies
\* c[n[k]-2] <= y[k] <= c[n[k]-1] (0-based breakpoints c[0..N-1]), and every
\* observation with n[k] <= 1 satisfies y[k] <= c[0].
C6_ContainmentShifted ==
    Rescaled =>
        \A i \in Observations :
            IF basesOut.n[i] >= 2
            THEN /\ basesOut.n[i] <= basesIn.N
                 /\ RLe(basesOut.c[basesOut.n[i] - 2], SimOf(i))
                 /\ RLe(SimOf(i), basesOut.c[basesOut.n[i] - 1])
            ELSE RLe(SimOf(i), basesOut.c[0])

\* an observation strictly inside an interval that is neither the first nor
\* the last, at neither extreme of the simulation
C6_Witness ==
    /\ Rescaled
    /\ \E i \in Observations :
          /\ ~IsExtreme(i)
          /\ basesOut.n[i] = 2
          /\ basesIn.N = 3
          /\ RLt(basesOut.c[0], SimOf(i))
          /\ RLt(SimOf(i), basesOut.c[1])

\* C23: for every simulation vector and every N >= 2 the spacing delta_c is
\* strictly positive and at least MIN_SIM_RANGE / (N - 1), so that dividing
\* by delta_c never divides by zero.
C23_SpacingBoundedBelow ==
    Rescaled =>
        /\ RLt(Zero, basesOut.delta_c)
        /\ RLe(RDiv(Rat(MIN_SIM_RANGE), Rat(basesIn.N - 1)), basesOut.delta_c)
        /\ basesOut.delta_c.d # 0

\* All simulations coincide (a steady state), three spline parameters: the
\* spacing is the minimal one
C23_Witness ==
    /\ Rescaled
    /\ Hi = Lo
    /\ Len(basesIn.sim_all) >= 2
    /\ basesIn.N = 3
    /\ basesOut.delta_c = RDiv(Rat(MIN_SIM_RANGE), Rat(2))



(***************************************************************************)
(* SplineInnerProblem: the groups of the problems solved below             *)
(***************************************************************************)

RECURSIVE MaskedFrom(_, _, _)
\* array[mask] of numpy for a boolean mask: the entries at the true positions
MaskedFrom(array, mask, i) ==
    IF i > Len(mask) THEN <<>>
    ELSE (IF mask[i] THEN <<array[i]>> ELSE <<>>) \o MaskedFrom(array, mask, i + 1)

RECURSIVE ConcatenateFrom(_, _, _)
ConcatenateFrom(expdata, mask, condition_index) ==
    IF condition_index > Len(mask) THEN <<>>
    ELSE MaskedFrom(expdata[condition_index], mask[condition_index], 1)
             \o ConcatenateFrom(expdata, mask, condition_index + 1)

\* (mutant) the conditions concatenated last to first
ExtractLastConditionFirst(expdata, mask) ==
    ConcatenateFrom([k \in DOMAIN expdata |-> expdata[Len(expdata) + 1 - k]],
                    [k \in DOMAIN mask |-> mask[Len(mask) + 1 - k]], 1)

ExtractExpdataUsingMask(expdata, mask) == ConcatenateFrom(expdata, mask, 1)

RatSeq(ints) == [k \in DOMAIN ints |-> Rat(ints[k])]

SeqMin(v) == At(v, ArgMin(v))
SeqMax(v) == At(v, ArgMax(v))

\* One entry of SplineInnerProblem.groups, with the keys the solver reads
Group(data, expdata_mask, n_spline_pars) ==
    LET datapoints == ExtractExpdataUsingMask(data, expdata_mask)
    IN  [ datapoints     |-> datapoints,
          n_datapoints   |-> Len(datapoints),
          n_spline_pars  |-> n_spline_pars,
          min_datapoint  |-> SeqMin(datapoints),
          max_datapoint  |-> SeqMax(datapoints),
          expdata_mask   |-> expdata_mask ]

\* One condition with three measurements, all of one group with two
\* spline parameters
OneGroupData == << RatSeq(<<0, 1, 2>>) >>
OneGroupProblem ==
    [ groups |-> << Group(OneGroupData, << <<TRUE, TRUE, TRUE>> >>, 2) >>,
      sim    |-> { << RatSeq(<<0, 2, 4>>) >>, << RatSeq(<<0, 4, 2>>) >>,
                   << RatSeq(<<2, 2, 2>>) >>, << RatSeq(<<4, 2, 0>>) >> },
      sigma  |-> { << RatSeq(<<1, 1, 1>>) >>, << RatSeq(<<2, 2, 2>>) >> } ]

\* Two conditions with two measurements each and two groups: the first
\* group observes the first condition, the second group the second
TwoGroupData == << RatSeq(<<0, 2>>), RatSeq(<<1, 2>>) >>
TwoGroupProblem ==
    [ groups |-> << Group(TwoGroupData, << <<TRUE, TRUE>>, <<FALSE, FALSE>> >>, 2),
                    Group(TwoGroupData, << <<FALSE, FALSE>>, <<TRUE, TRUE>> >>, 2) >>,
      sim    |-> { << RatSeq(<<0, 2>>), RatSeq(<<0, 4>>) >>,
                   << RatSeq(<<2, 0>>), RatSeq(<<3, 3>>) >> },
      sigma  |-> { << RatSeq(<<1, 1>>), RatSeq(<<1, 1>>) >> } ]

\* _inner_problem_exp of test_spline.py: eleven timepoints 0..10 are the
\* data, one group, spline_ratio 1/2, hence ceil(11/2) = 6 spline parameters
InnerProblemExpTimepoints == RatSeq(<<0, 1, 2, 3, 4, 5, 6, 7, 8, 9, 10>>)
InnerProblemExp ==
    [ groups |-> << Group(<<InnerProblemExpTimepoints>>,
                          << [k \in 1 .. 11 |-> TRUE] >>, 6) >>,
      sim    |-> { <<InnerProblemExpTimepoints>> },
      sigma  |-> { << [k \in 1 .. 11 |-> Rat(1)] >> } ]

Problems == << OneGroupProblem, TwoGroupProblem, InnerProblemExp >>

\* problem.get_groups_for_xs(InnerParameterType.SPLINE)
GetGroupsForXs(p) == DOMAIN Problems[p].groups


(***************************************************************************)
(* SplineInnerSolver: options of one inner optimization                    *)
(***************************************************************************)

\* A minimal difference of the whole measurement range (not what the code does)
MinimalDifferenceIsRange(min_meas, max_meas, N, use_minimal_difference) ==
    IF use_minimal_difference THEN RSub(max_meas, min_meas) ELSE Zero

GetMinimalDifference(min_meas, max_meas, N, use_minimal_difference) ==
    IF use_minimal_difference
    THEN RDiv(RSub(max_meas, min_meas), Rat(2 * N))
    ELSE Zero

RMax(a, b) == IF RLt(a, b) THEN b ELSE a

\* The literal 0.3 of the start heuristic
ThreeTenths == Q(3, 10)

\* (mutant) options whose lower bound is min_diff for s[0] as well
OptionsWithoutZeroBound(last_opt_values, N, min_meas, max_meas, min_diff) ==
    LET range_all == RSub(max_meas, min_meas)
        first == RMax(RSub(min_meas, RMul(ThreeTenths, range_all)), Zero)
        rest  == RDiv(RSub(RAdd(max_meas, RMul(ThreeTenths, range_all)), first),
                      Rat(N - 1))
    IN  [ x0 |-> IF \E i \in DOMAIN last_opt_values : RLt(Zero, last_opt_values[i])
                 THEN last_opt_values
                 ELSE [i \in Range(N) |-> IF i = 0 THEN first ELSE rest],
          lb |-> [i \in Range(N) |-> min_diff],
          ub |-> [i \in Range(N) |-> [n |-> 1, d |-> 0]] ]

\* x0 and Bounds(lb=constraint_min_diff); scipy's Bounds has ub = inf by default
GetInnerOptimizationOptions(last_opt_values, N, min_meas, max_meas, min_diff) ==
    LET range_all == RSub(max_meas, min_meas)
        constraint_min_diff == [i \in Range(N) |-> IF i = 0 THEN Zero ELSE min_diff]
        first == RMax(RSub(min_meas, RMul(ThreeTenths, range_all)), Zero)
        rest  == RDiv(RSub(RAdd(max_meas, RMul(ThreeTenths, range_all)), first),
                      Rat(N - 1))
    IN  [ x0 |-> IF \E i \in DOMAIN last_opt_values : RLt(Zero, last_opt_values[i])
                 THEN last_opt_values
                 ELSE [i \in Range(N) |-> IF i = 0 THEN first ELSE rest],
          lb |-> constraint_min_diff,
          ub |-> [i \in Range(N) |-> [n |-> 1, d |-> 0]] ]

\* The reformulated parameters stored as they are (not what the code does)
SaveReformulated(s) == s

\* The values written to inner_parameters[idx].value, idx in index order
SaveInnerParametersToInnerProblem(s) ==
    [idx \in DOMAIN s |-> SumPrefix(s, idx + 1)]

(***************************************************************************)
(* scipy.optimize.minimize(method="L-BFGS-B"), a black box to the solver. *)
(* The inner objective is a convex quadratic in s, so its minimisers over  *)
(* the box s >= lb are exactly the points satisfying the first-order       *)
(* (KKT) conditions.  A call either converges, returning such a point      *)
(* with success = True, or stops early at some point of the box with       *)
(* success = False.  The points are drawn from a grid of increments and    *)
(* the lower bounds.                                                       *)
(***************************************************************************)

MaxIncrement == 2

\* Grid of increments per problem of Problems
Increments ==
    << {Q(k, 4) : k \in 0 .. 4 * MaxIncrement},
       {Q(k, 4) : k \in 0 .. 4 * MaxIncrement},
       {Rat(0), Rat(2)} >>

InBounds(x, lb) == \A i \in DOMAIN lb : RLe(lb[i], x[i])

IsOptimum(x, jac, lb) ==
    \A i \in DOMAIN lb :
        /\ RLe(lb[i], x[i])
        /\ IF x[i] = lb[i] THEN RLe(Zero, jac[i]) ELSE jac[i] = Zero

\* intervals_per_sim as the sequence the objective functions iterate over
IntervalsPerSim(bases) == [k \in 1 .. Cardinality(DOMAIN bases.n) |-> bases.n[k - 1]]

\* OptimizeResult of a run on the objective and gradient wrappers of
\* _optimize_spline, stopped at x
OptimizeResult(x, success, group_dict, snap, bases) ==
    [ x       |-> x,
      fun     |-> CalculateObjectiveFunction(x, snap.current_simulation,
                      group_dict.datapoints, snap.noise_parameters,
                      group_dict.n_spline_pars, bases.delta_c, bases.c,
                      IntervalsPerSim(bases)),
      jac     |-> CalculateInnerGradient(x, snap.current_simulation,
                      group_dict.datapoints, snap.noise_parameters,
                      group_dict.n_spline_pars, bases.delta_c, bases.c,
                      IntervalsPerSim(bases)),
      success |-> success ]

NonConverged(lb) == {lb, [i \in DOMAIN lb |-> RAdd(lb[i], Rat(1))]}

Minimize(increments, lb, group_dict, snap, bases) ==
    LET values     == increments \cup {lb[i] : i \in DOMAIN lb}
        candidates == {x \in [DOMAIN lb -> values] : InBounds(x, lb)}
        evaluated  == {OptimizeResult(x, TRUE, group_dict, snap, bases) :
                           x \in candidates}
    IN  {r \in evaluated : IsOptimum(r.x, r.jac, lb)}
          \cup {OptimizeResult(x, FALSE, group_dict, snap, bases) :
                    x \in NonConverged(lb)}


(***************************************************************************)
(* SplineInnerSolver.solve and _optimize_spline                            *)
(***************************************************************************)

\* The two group_dict entries that solve() overwrites before optimizing
Snapshot(group_dict, sim, sigma) ==
    [ noise_parameters   |-> ExtractExpdataUsingMask(sigma, group_dict.expdata_mask),
      current_simulation |-> ExtractExpdataUsingMask(sim, group_dict.expdata_mask) ]

MinDiffOf(group_dict, use_minimal_difference) ==
    GetMinimalDifference(group_dict.min_datapoint, group_dict.max_datapoint,
                         group_dict.n_spline_pars, use_minimal_difference)

\* The results minimize may return to _optimize_spline for one group
OptimizeSpline(p, group, sim, sigma, use_minimal_difference) ==
    LET group_dict == Problems[p].groups[group]
        snap       == Snapshot(group_dict, sim, sigma)
        bases      == RescaleSplineBases(snap.current_simulation,
                                         group_dict.n_spline_pars)
        min_diff   == MinDiffOf(group_dict, use_minimal_difference)
        options    == GetInnerOptimizationOptions(<<>>, group_dict.n_spline_pars,
                          group_dict.min_datapoint, group_dict.max_datapoint,
                          min_diff)
    IN  Minimize(Increments[p], options.lb, group_dict, snap, bases)

SolveInputs(p) == Problems[p].sim \X Problems[p].sigma \X BOOLEAN

\* OptimizeSpline, evaluated once for every problem, group and input
SolveKeys ==
    UNION {{<<p, group, in>> : group \in GetGroupsForXs(p), in \in SolveInputs(p)} :
               p \in DOMAIN Problems}

InnerOptimizationResults ==
    [key \in SolveKeys |-> OptimizeSpline(key[1], key[2], key[3][1], key[3][2], key[3][3])]

\* (mutant) values written only for a converged result
StoredOnSuccess(stored, result) ==
    IF result.success THEN SaveInnerParametersToInnerProblem(result.x)
    ELSE stored

\* The values of a group after solve(): save_inner_parameters_to_inner_problem
\* is called on the result's x whatever its success flag
StoredAfterSolve(stored, result) ==
    SaveInnerParametersToInnerProblem(result.x)

NotMinimized == [x0 |-> <<>>, lb |-> <<>>, ub |-> <<>>, x |-> <<>>, fun |-> Zero,
                 jac |-> <<>>, success |-> FALSE]

InitSolve ==
    /\ pc = "built"
    /\ problem \in DOMAIN Problems
    /\ value = [group \in GetGroupsForXs(problem) |->
                   [idx \in Range(Problems[problem].groups[group].n_spline_pars)
                        |-> Zero]]
    /\ snapshot = [group \in GetGroupsForXs(problem) |->
                      [noise_parameters |-> <<>>, current_simulation |-> <<>>]]
    /\ minimized = [group \in GetGroupsForXs(problem) |-> NotMinimized]
    /\ solver = [use_minimal_difference |-> TRUE]
    /\ BasesUnused
    /\ ObjUnused
    /\ ObjFunUnused
    /\ CalcUnused
    /\ FnUnused

\* solve(problem, sim, sigma) of a solver built with use_minimal_difference
Solve ==
    \E sim \in Problems[problem].sim, sigma \in Problems[problem].sigma,
       use_minimal_difference \in BOOLEAN :
      LET groups  == GetGroupsForXs(problem)
          choices == [group \in groups |->
                         InnerOptimizationResults[<<problem, group,
                             <<sim, sigma, use_minimal_difference>> >>]]
          options == [group \in groups |->
                         LET group_dict == Problems[problem].groups[group]
                         IN  GetInnerOptimizationOptions(value[group],
                                 group_dict.n_spline_pars,
                                 group_dict.min_datapoint,
                                 group_dict.max_datapoint,
                                 MinDiffOf(group_dict, use_minimal_difference))]
      IN  \E results \in {f \in [groups -> UNION {choices[g] : g \in groups}] :
                              \A g \in groups : f[g] \in choices[g]} :
            /\ pc \in {"built", "solved"}
            /\ pc' = "solved"
            /\ snapshot' = [group \in groups |->
                               Snapshot(Problems[problem].groups[group], sim, sigma)]
            /\ minimized' = [group \in groups |->
                                [ x0      |-> options[group].x0,
                                  lb      |-> options[group].lb,
                                  ub      |-> options[group].ub,
                                  x       |-> results[group].x,
                                  fun     |-> results[group].fun,
                                  jac     |-> results[group].jac,
                                  success |-> results[group].success ]]
            /\ value' = [group \in groups |->
                            StoredAfterSolve(value[group], results[group])]
            /\ solver' = [use_minimal_difference |-> use_minimal_difference]
            /\ UNCHANGED <<problem, basesVars, objVars, objFunVars, calcVars, fnVars>>

NextSolve == Solve

SpecSolve == InitSolve /\ [][NextSolve]_vars


(***************************************************************************)
(* Properties of solve (checked under SpecSolve)                           *)
(***************************************************************************)
Solved == pc = "solved"

GroupDict(group) == Problems[problem].groups[group]

SplinePars(group) == Range(GroupDict(group).n_spline_pars)

\* C3: after any sequence of solve() calls, every group's stored
\* InnerParameter values, in index order, are the cumulative sums of the
\* s* the minimizer returned last (which lies inside the bounds it was
\* given), and they are non-decreasing in the index.
C3_StoredValuesAreCumulativeAndMonotone ==
    Solved =>
        \A group \in GetGroupsForXs(problem) :
            /\ InBounds(minimized[group].x, minimized[group].lb)
            /\ \A i \in SplinePars(group) :
                   /\ value[group][i] = SumPrefix(minimized[group].x, i + 1)
                   /\ i > 0 => RLe(value[group][i - 1], value[group][i])

\* Both groups of the two-group problem hold values that differ from the
\* increments they were computed from
C3_Witness ==
    /\ Solved
    /\ problem = 2
    /\ \A group \in GetGroupsForXs(problem) :
           /\ RLt(Zero, minimized[group].x[0])
           /\ RLt(Zero, minimized[group].x[1])
           /\ RLt(value[group][0], value[group][1])


\* The inputs of Problems[problem] that leave the snapshots of the state
LastInputs(use_minimal_difference) ==
    {in \in SolveInputs(problem) :
        /\ in[3] = use_minimal_difference
        /\ \A group \in GetGroupsForXs(problem) :
               Snapshot(GroupDict(group), in[1], in[2]) = snapshot[group]}

\* The converged results minimize can return for the group on the data of
\* the last solve, under either setting of use_minimal_difference
Optima(group, use_minimal_difference) ==
    UNION {{r \in InnerOptimizationResults[<<problem, group, in>>] : r.success} :
               in \in LastInputs(use_minimal_difference)}

ExpectedX == [i \in Range(6) |-> IF i = 0 THEN Zero ELSE Rat(2)]
ExpectedJac == [i \in Range(6) |-> Zero]

\* C8: for simulation = measurement = 0, 1, ..., 10, sigma = 1 and N = 6
\* the inner optimum is x = [0,2,2,2,2,2] with fun = 0 and jac = zeros(6),
\* with use_minimal_difference True and False, and that x is feasible under
\* both bound settings.
C8_ZeroResidualOptimum ==
    (Solved /\ problem = 3) =>
        /\ InBounds(ExpectedX, minimized[1].lb)
        /\ Optima(1, solver.use_minimal_difference) =
               {[x |-> ExpectedX, fun |-> Zero, jac |-> ExpectedJac,
                 success |-> TRUE]}
        /\ minimized[1].success =>
               /\ minimized[1].x = ExpectedX
               /\ minimized[1].fun = Zero
               /\ minimized[1].jac = ExpectedJac

\* The second solve of test_spline_inner_solver: minimal difference off,
\* after a converged solve, with the bounds of the minimal difference on
\* also satisfied
C8_Witness ==
    /\ Solved
    /\ problem = 3
    /\ ~solver.use_minimal_difference
    /\ minimized[1].success
    /\ minimized[1].x = ExpectedX
    /\ \E i \in Range(6) : RLt(Zero, minimized[1].x0[i])
    /\ InBounds(ExpectedX, [i \in Range(6) |-> IF i = 0 THEN Zero ELSE Q(10, 12)])

\* C9: when the minimiser found with use_minimal_difference = False has
\* s[i] >= (max(z) - min(z)) / (2N) for all i > 0, every converged solve of
\* the same group on the same data with use_minimal_difference = True has
\* the same objective value and the same gradient.
ClaimedMinimalDifference(group) ==
    RDiv(RSub(GroupDict(group).max_datapoint, GroupDict(group).min_datapoint),
         Rat(2 * GroupDict(group).n_spline_pars))

SatisfiesClaimedMinimalDifference(group, s) ==
    \A i \in SplinePars(group) : i > 0 => RLe(ClaimedMinimalDifference(group), s[i])

C9_MinimalDifferenceInvariance ==
    (Solved /\ ~solver.use_minimal_difference) =>
        \A group \in GetGroupsForXs(problem) :
            ( /\ minimized[group].success
              /\ SatisfiesClaimedMinimalDifference(group, minimized[group].x) )
            => \A r \in Optima(group, TRUE) :
                   /\ r.fun = minimized[group].fun
                   /\ r.jac = minimized[group].jac

\* A converged solve without minimal difference whose minimiser keeps the
\* distance, is not at its lower bounds, and has a counterpart with minimal
\* difference; the objective is not zero there
C9_Witness ==
    /\ Solved
    /\ ~solver.use_minimal_difference
    /\ problem = 1
    /\ minimized[1].success
    /\ SatisfiesClaimedMinimalDifference(1, minimized[1].x)
    /\ RLt(Zero, minimized[1].fun)
    /\ Optima(1, TRUE) # {}

\* C19: the minimizer is given lower bound 0 for s[0], lower bound min_diff
\* for every s[i] with i > 0 and no upper bound, where min_diff is
\* (max(z) - min(z)) / (2N) if use_minimal_difference is on and 0 otherwise.
C19_InnerSolveBounds ==
    Solved =>
        \A group \in GetGroupsForXs(problem) :
            LET z == GroupDict(group).datapoints
                N == GroupDict(group).n_spline_pars
                min_diff == IF solver.use_minimal_difference
                            THEN RDiv(RSub(SeqMax(z), SeqMin(z)), Rat(2 * N))
                            ELSE Zero
            IN  /\ DOMAIN minimized[group].lb = Range(N)
                /\ DOMAIN minimized[group].ub = Range(N)
                /\ minimized[group].lb[0] = Zero
                /\ \A i \in Range(N) :
                      /\ i > 0 => minimized[group].lb[i] = min_diff
                      /\ minimized[group].ub[i] = Inf

\* A solve with the minimal difference on gave a positive bound to s[1],
\* and the optimum it returned sits on that bound
C19_Witness ==
    /\ Solved
    /\ solver.use_minimal_difference
    /\ \E group \in GetGroupsForXs(problem) :
          /\ RLt(Zero, minimized[group].lb[1])
          /\ minimized[group].lb[0] = Zero
          /\ minimized[group].success
          /\ minimized[group].x[1] = minimized[group].lb[1]

\* The start heuristic computed from the measurement range
HeuristicStart(group) ==
    GetInnerOptimizationOptions(<<>>, GroupDict(group).n_spline_pars,
        GroupDict(group).min_datapoint, GroupDict(group).max_datapoint,
        Zero).x0

\* C10: on a solve() call for a group with a stored value > 0 the initial
\* guess handed to the minimizer is the s* returned by the previous solve of
\* that group; with no stored value > 0 it is the heuristic start.
C10_WarmStartIsPreviousOptimum ==
    [][\A group \in GetGroupsForXs(problem) :
          IF \E i \in SplinePars(group) : RLt(Zero, value[group][i])
          THEN minimized'[group].x0 = minimized[group].x
          ELSE minimized'[group].x0 = HeuristicStart(group)]_vars

\* What the code hands over instead: the stored values, which are the
\* cumulative sums of the previous s*
WarmStartIsStoredValues ==
    [][\A group \in GetGroupsForXs(problem) :
          IF \E i \in SplinePars(group) : RLt(Zero, value[group][i])
          THEN minimized'[group].x0 = value[group]
          ELSE minimized'[group].x0 = HeuristicStart(group)]_vars

\* The cumulative sums of a result's x
CumulativeSums(x) == [i \in DOMAIN x |-> SumPrefix(x, i + 1)]

\* C29: every solve() leaves in each group the cumulative sums of the x its
\* minimizer returned, whether the result converged or not, and the solve
\* after a non-converged one starts from the values of the failed result
\* (when one of them is positive).
C29_FailedResultOverwritesValues ==
    [][\A group \in GetGroupsForXs(problem) :
          /\ value'[group] = CumulativeSums(minimized'[group].x)
          /\ ( /\ Solved
               /\ ~minimized[group].success
               /\ \E i \in SplinePars(group) :
                      RLt(Zero, CumulativeSums(minimized[group].x)[i]) )
             => minimized'[group].x0 = CumulativeSums(minimized[group].x)]_vars

\* A non-converged solve that started from the values of the solve before
\* it and left other values behind
C29_Witness ==
    /\ Solved
    /\ \E group \in GetGroupsForXs(problem) :
          /\ ~minimized[group].success
          /\ minimized[group].x0 # HeuristicStart(group)
          /\ value[group] # minimized[group].x0
          /\ value[group] = CumulativeSums(minimized[group].x)
          /\ \E i \in SplinePars(group) : RLt(Zero, value[group][i])


(***************************************************************************)
(* SplineInnerSolver.calculate_obj_function                                *)
(***************************************************************************)

RECURSIVE SumFun(_, _)
\* np.sum([x_inner_opt[idx]['fun'] for idx in range(len)])
SumFun(results, len) ==
    IF len = 0 THEN Zero ELSE RAdd(SumFun(results, len - 1), results[len].fun)

\* The sum of all groups whatever their success (not what the code does)
SumOfAllGroups(results) ==
    [obj |-> SumFun(results, Len(results)), warned |-> FALSE, raised |-> FALSE]

CalculateObjFunction(results) ==
    IF FALSE \in {results[idx].success : idx \in DOMAIN results}
    THEN [obj |-> Inf, warned |-> TRUE, raised |-> FALSE]
    ELSE [obj |-> SumFun(results, Len(results)), warned |-> FALSE, raised |-> FALSE]

(***************************************************************************)
(* Specification SpecObjFunction: calculate_obj_function on every list of  *)
(* at most MaxGroups inner results                                         *)
(***************************************************************************)
MaxGroups == 3

FunValues == {Rat(0), Rat(1), Q(5, 2)}

ResultLists ==
    UNION {[1 .. k -> [success : BOOLEAN, fun : FunValues]] : k \in 0 .. MaxGroups}

InitObjFunction ==
    /\ pc = "input"
    /\ x_inner_opt \in ResultLists
    /\ obj_function = NoObjFunction
    /\ BasesUnused
    /\ ObjUnused
    /\ SolveUnused
    /\ CalcUnused
    /\ FnUnused

CalculateObj ==
    /\ pc = "input"
    /\ pc' = "calculated"
    /\ obj_function' = CalculateObjFunction(x_inner_opt)
    /\ UNCHANGED <<x_inner_opt, basesVars, objVars, solveVars, calcVars, fnVars>>

NextObjFunction == CalculateObj

SpecObjFunction == InitObjFunction /\ [][NextObjFunction]_vars

RECURSIVE SumFrom(_, _)
\* fun of the groups idx, idx + 1, ..., added from the back
SumFrom(results, idx) ==
    IF idx > Len(results) THEN Zero
    ELSE RAdd(results[idx].fun, SumFrom(results, idx + 1))

\* C2: if any group's result has success = False the value is +inf, with a
\* warning and without an exception, for any number of groups and any
\* position of the failed group; otherwise it is the sum of the groups' fun.
C2_InfOnFailureElseSum ==
    pc = "calculated" =>
        /\ ~obj_function.raised
        /\ IF \E idx \in DOMAIN x_inner_opt : ~x_inner_opt[idx].success
           THEN obj_function.obj = Inf /\ obj_function.warned
           ELSE obj_function.obj = SumFrom(x_inner_opt, 1) /\ ~obj_function.warned

\* Three groups of which only the middle one failed
C2_Witness ==
    /\ pc = "calculated"
    /\ Len(x_inner_opt) = 3
    /\ x_inner_opt[1].success /\ ~x_inner_opt[2].success /\ x_inner_opt[3].success
    /\ RLt(Zero, SumFrom(x_inner_opt, 1))
    /\ obj_function.obj = Inf


(***************************************************************************)
(* OptimalScalingAmiciCalculator.__call__                                  *)
(***************************************************************************)

\* snllh of init_return_values: the gradient before anything is computed;
\* <<>> stands for None, which filter_return_dict drops from the result
InitReturnValues(sensi_orders, mode, dim) ==
    IF mode = "MODE_FUN" /\ 1 \in sensi_orders
    THEN [i \in 1 .. dim |-> Zero]
    ELSE <<>>

\* The guard against a least squares solver with parameter dependent sigma
LeastSquaresCheck(known_least_squares_safe, mode, sensi_orders) ==
    ~known_least_squares_safe /\ mode = "MODE_RES" /\ 1 \in sensi_orders

LeastSquaresUnsafe(add_sigma_residuals, ssigma) ==
    ~add_sigma_residuals /\ ssigma

\* A gradient of zeros for a failed simulation (not what the code does)
SimulationFailedZeros(sensi_orders, dim, snllh) ==
    [ fval |-> Inf,
      grad |-> IF 1 \in sensi_orders THEN [i \in 1 .. dim |-> Zero] ELSE snllh ]

\* The result when any rdata.status is not AMICI_SUCCESS
SimulationFailed(sensi_orders, dim, snllh) ==
    [ fval |-> Inf,
      grad |-> IF 1 \in sensi_orders THEN [i \in 1 .. dim |-> NaN] ELSE snllh ]

\* max(sensi_orders), 0 for the empty tuple
SensiOrder(sensi_orders) ==
    IF sensi_orders = {} THEN 0
    ELSE CHOOSE o \in sensi_orders : \A other \in sensi_orders : other <= o

(***************************************************************************)
(* Specification SpecCalc: calls of one calculator, for every request,     *)
(* every status of at most MaxConditions simulated conditions and every    *)
(* outcome of the inner solver                                             *)
(***************************************************************************)
MaxConditions == 2

OuterDimensions == {1, 2}

SensiOrders == {{0}, {1}, {0, 1}}

Modes == {"MODE_FUN", "MODE_RES"}

\* status[i] is TRUE when condition i reports AMICI_SUCCESS
Statuses == UNION {[1 .. k -> BOOLEAN] : k \in 1 .. MaxConditions}

\* What inner_solver.solve and inner_solver.calculate_gradients may return
InnerSolveResults ==
    { << [success |-> TRUE, fun |-> Rat(1)] >>,
      << [success |-> FALSE, fun |-> Rat(1)] >>,
      << [success |-> TRUE, fun |-> Rat(1)], [success |-> TRUE, fun |-> Q(5, 2)] >> }

OuterGradients(dim) == {[i \in 1 .. dim |-> v] : v \in {Rat(0), Rat(1)}}

\* The InnerParameter values inner_solver.solve may leave in the inner problem
SolvedValues == { << Q(1, 2), Rat(1) >> }

\* inner_problem.get_inner_parameter_dictionary(): the current values
GetInnerParameterDictionary(inner_parameters) == inner_parameters

\* (mutant) a calculator that goes on to the inner solve after a failure
FailureIgnored(status) == FALSE

\* any(rdata.status != amici.AMICI_SUCCESS for rdata in inner_rdatas)
AnySimulationFailed(status) == \E i \in DOMAIN status : ~status[i]

InitCalc ==
    /\ pc = "constructed"
    /\ calculator = NewCalculator
    /\ call = NoCall
    /\ BasesUnused
    /\ ObjUnused
    /\ SolveUnused
    /\ ObjFunUnused
    /\ FnUnused

Call ==
    \E sensi_orders \in SensiOrders, mode \in Modes, dim \in OuterDimensions,
       status \in Statuses, add_sigma_residuals \in BOOLEAN, ssigma \in BOOLEAN :
      LET snllh   == InitReturnValues(sensi_orders, mode, dim)
          check   == LeastSquaresCheck(calculator.known_least_squares_safe,
                                       mode, sensi_orders)
          request == [ sensi_orders |-> sensi_orders, mode |-> mode,
                       x_ids |-> dim, status |-> status,
                       add_sigma_residuals |-> add_sigma_residuals,
                       ssigma |-> ssigma,
                       known_least_squares_safe |->
                           calculator.known_least_squares_safe,
                       raised |-> FALSE, fval |-> Zero, grad |-> snllh,
                       solved |-> FALSE,
                       before |-> calculator.inner_parameters,
                       inner_parameters |->
                           GetInnerParameterDictionary(calculator.inner_parameters),
                       invoked |-> {} ]
      IN  /\ pc \in {"constructed", "called"}
          /\ pc' = "called"
          /\ IF check /\ LeastSquaresUnsafe(add_sigma_residuals, ssigma)
             THEN /\ call' = [request EXCEPT !.raised = TRUE]
                  /\ UNCHANGED calculator
             ELSE LET safe == calculator.known_least_squares_safe \/ check
                  IN  IF AnySimulationFailed(status)
                      THEN LET failed == SimulationFailed(sensi_orders, dim, snllh)
                           IN  /\ calculator' = [calculator EXCEPT
                                      !.known_least_squares_safe = safe]
                               /\ call' = [request EXCEPT
                                      !.fval = failed.fval,
                                      !.grad = failed.grad]
                      ELSE \E results \in InnerSolveResults,
                              gradient \in OuterGradients(dim),
                              stored \in SolvedValues :
                             /\ calculator' =
                                    [known_least_squares_safe |-> safe,
                                     inner_parameters |-> stored]
                             /\ call' = [request EXCEPT
                                 !.solved = TRUE,
                                 !.fval = CalculateObjFunction(results).obj,
                                 !.inner_parameters =
                                     GetInnerParameterDictionary(stored),
                                 !.invoked =
                                     {"solve", "calculate_obj_function"} \cup
                                     IF SensiOrder(sensi_orders) > 0
                                     THEN {"calculate_gradients"} ELSE {},
                                 !.grad = IF SensiOrder(sensi_orders) > 0
                                          THEN gradient ELSE snllh]
          /\ UNCHANGED <<basesVars, objVars, solveVars, objFunVars, fnVars>>

NextCalc == Call

SpecCalc == InitCalc /\ [][NextCalc]_vars

Called == pc = "called"

SimulationFailure == \E i \in DOMAIN call.status : ~call.status[i]

SentinelReturned ==
    /\ ~call.raised
    /\ call.fval = Inf
    /\ 1 \in call.sensi_orders =>
           /\ Len(call.grad) = call.x_ids
           /\ \A i \in 1 .. call.x_ids : call.grad[i] = NaN

Rejected ==
    /\ LeastSquaresCheck(call.known_least_squares_safe, call.mode,
                         call.sensi_orders)
    /\ LeastSquaresUnsafe(call.add_sigma_residuals, call.ssigma)

C24_FailureLeavesInnerStateUntouched ==
    (Called /\ SimulationFailure) =>
        /\ "solve" \notin call.invoked
        /\ "calculate_gradients" \notin call.invoked
        /\ calculator.inner_parameters = call.before
        /\ ~call.raised => call.inner_parameters = call.before

\* A failed simulation met after an earlier call has stored inner values
C24_Witness ==
    /\ Called
    /\ SimulationFailure
    /\ ~call.raised
    /\ call.before = << Q(1, 2), Rat(1) >>
    /\ call.inner_parameters = << Q(1, 2), Rat(1) >>
    /\ calculator.inner_parameters = << Q(1, 2), Rat(1) >>
    /\ call.fval = Inf

(***************************************************************************)
(* SplineInnerSolver.__init__ and validate_options                         *)
(*                                                                         *)
(* A Python value is [type, num, text]: num is the number a bool, int or   *)
(* float stands for (True is 1, False is 0), text the content of a str.    *)
(***************************************************************************)
PyBool(b) == [type |-> "bool", num |-> IF b THEN Rat(1) ELSE Rat(0), text |-> ""]
PyInt(i) == [type |-> "int", num |-> Rat(i), text |-> ""]
PyFloat(q) == [type |-> "float", num |-> q, text |-> ""]
PyStr(s) == [type |-> "str", num |-> Zero, text |-> s]
PyNone == [type |-> "NoneType", num |-> Zero, text |-> ""]

PyNumeric(a) == a.type \in {"bool", "int", "float"}

\* a == b of Python: numbers compare by value across bool, int and float
PyEq(a, b) ==
    IF PyNumeric(a) /\ PyNumeric(b) THEN a.num = b.num
    ELSE a.type = b.type /\ a.text = b.text

\* a == b only for values of the same type (not what Python does)
PyEqSameType(a, b) == a.type = b.type /\ a.num = b.num /\ a.text = b.text

\* x in list
PyIn(x, list) == \E i \in DOMAIN list : PyEq(x, list[i])

\* get_default_options()
GetDefaultOptions == [use_minimal_difference |-> PyBool(TRUE)]

\* {**self.get_default_options(), **self.options} after `if not self.options`;
\* options is [kind, value]: None, {}, a dict of other keys only, or a dict
\* with the key use_minimal_difference
MergeOptions(options) ==
    IF options.kind = "flag"
    THEN [use_minimal_difference |-> options.value]
    ELSE GetDefaultOptions

\* validate_options: TRUE when it returns, FALSE when it raises ValueError
ValidateOptions(options) ==
    PyIn(options.use_minimal_difference, <<PyBool(TRUE), PyBool(FALSE)>>)

(***************************************************************************)
(* Specification SpecConstruct: solvers constructed one after another      *)
(* from every kind of options                                              *)
(***************************************************************************)
MaxOptionInt == 2

OptionValues ==
    {PyBool(b) : b \in BOOLEAN}
      \cup {PyInt(i) : i \in (0 - MaxOptionInt) .. MaxOptionInt}
      \cup {PyFloat(Q(k, 2)) : k \in (0 - 2) .. 4}
      \cup {PyStr(s) : s \in {"True", "False", ""}}
      \cup {PyNone}

OptionsArguments ==
    {[kind |-> k, value |-> PyNone] : k \in {"None", "empty", "other_key"}}
      \cup {[kind |-> "flag", value |-> v] : v \in OptionValues}

InitConstruct ==
    /\ pc = "start"
    /\ args = [kind |-> "None", value |-> PyNone]
    /\ ret = [raised |-> FALSE, instances |-> {}]
    /\ OthersUnused

\* SplineInnerSolver(options)
Construct ==
    \E options \in OptionsArguments :
      LET merged == MergeOptions(options)
      IN  /\ pc' = "constructed"
          /\ args' = options
          /\ ret' = IF ValidateOptions(merged)
                    THEN [raised |-> FALSE,
                          instances |-> ret.instances \cup {merged}]
                    ELSE [raised |-> TRUE, instances |-> ret.instances]
          /\ UNCHANGED otherVars

NextConstruct == Construct

SpecConstruct == InitConstruct /\ [][NextConstruct]_vars

\* C11: constructing a solver with a non-boolean use_minimal_difference
\* fails, so no solver instance ever holds a non-boolean flag.
C11_OnlyBooleanFlags ==
    /\ \A instance \in ret.instances :
           instance.use_minimal_difference.type = "bool"
    /\ (pc = "constructed" /\ args.kind = "flag" /\ args.value.type # "bool")
           => ret.raised

\* What the code guarantees instead: the flag every instance holds compares
\* equal to True or False, and values that do not are rejected
FlagsEqualABoolean ==
    /\ \A instance \in ret.instances :
           instance.use_minimal_difference.num \in {Rat(0), Rat(1)}
             /\ PyNumeric(instance.use_minimal_difference)
    /\ (pc = "constructed" /\ args.kind = "flag"
          /\ ~(PyNumeric(args.value) /\ args.value.num \in {Rat(0), Rat(1)}))
           => ret.raised


(***************************************************************************)
(* Specification SpecNoise: the inner objective and its gradient on group  *)
(* data whose noise may be zero.  The arrays are numpy arrays, so 1 / 0    *)
(* is inf and 0 * inf is nan; nothing in the two functions raises.         *)
(***************************************************************************)
NoiseObservationCounts == {1, 2}

NoiseInputs ==
    UNION {[ s            : [Range(2) -> {Rat(0), Rat(1)}],
             sim_all      : [1 .. K -> {Rat(0), Rat(1), Rat(3)}],
             measurements : [1 .. K -> {Rat(0), Rat(2)}],
             sigma        : [1 .. K -> {Rat(0), Rat(1)}],
             N            : {2} ] : K \in NoiseObservationCounts}

InitNoise ==
    /\ pc = "input"
    /\ args \in NoiseInputs
    /\ ret = [function |-> "", raised |-> FALSE, obj |-> Zero, gradient |-> <<>>]
    /\ OthersUnused

\* calculate_objective_function on bases rescaled to the simulation
CallObjective ==
    /\ pc = "input"
    /\ pc' = "returned"
    /\ LET bases == RescaleSplineBases(args.sim_all, args.N)
       IN  ret' = [ function |-> "calculate_objective_function",
                    raised   |-> FALSE,
                    obj      |-> CalculateObjectiveFunction(args.s, args.sim_all,
                                     args.measurements, args.sigma, args.N,
                                     bases.delta_c, bases.c, IntervalsPerSim(bases)),
                    gradient |-> <<>> ]
    /\ UNCHANGED <<args, otherVars>>

\* calculate_inner_gradient on bases rescaled to the simulation
CallGradient ==
    /\ pc = "input"
    /\ pc' = "returned"
    /\ LET bases == RescaleSplineBases(args.sim_all, args.N)
       IN  ret' = [ function |-> "calculate_inner_gradient",
                    raised   |-> FALSE,
                    obj      |-> Zero,
                    gradient |-> CalculateInnerGradient(args.s, args.sim_all,
                                     args.measurements, args.sigma, args.N,
                                     bases.delta_c, bases.c, IntervalsPerSim(bases)) ]
    /\ UNCHANGED <<args, otherVars>>

NextNoise == CallObjective \/ CallGradient

SpecNoise == InitNoise /\ [][NextNoise]_vars

ZeroNoise == \E k \in DOMAIN args.sigma : args.sigma[k] = Zero

\* C12: evaluating the inner objective or its gradient for a group in which
\* some sigma_k is zero fails with an error instead of returning a value.
C12_ZeroNoiseRaises ==
    (pc = "returned" /\ ZeroNoise) => ret.raised

\* What the code does instead: it returns, and the objective is inf or nan,
\* the gradient has an inf or nan component
ZeroNoiseReturnsNonFinite ==
    (pc = "returned" /\ ZeroNoise) =>
        /\ ~ret.raised
        /\ ret.function = "calculate_objective_function" => ret.obj.d = 0
        /\ ret.function = "calculate_inner_gradient" =>
               \E j \in Range(args.N) : ret.gradient[j].d = 0


(***************************************************************************)
(* SpecLengths: calculate_objective_function on arrays of unequal length   *)
(***************************************************************************)

LengthCounts == {2, 3}

LengthInputs ==
    UNION {[ s            : [Range(2) -> {Rat(0), Rat(1)}],
             sim_all      : [1 .. Ks -> {Rat(0), Rat(4)}],
             measurements : [1 .. Km -> {Rat(0), Rat(2)}],
             sigma        : [1 .. Kg -> {Rat(1)}],
             N            : {2} ] :
               Ks \in LengthCounts, Km \in LengthCounts, Kg \in LengthCounts}

InitLengths ==
    /\ pc = "lengths"
    /\ args \in LengthInputs
    /\ ret = [raised |-> FALSE, obj |-> Zero, terms |-> 0]
    /\ OthersUnused

\* calculate_objective_function: the loop runs over zip(sim_all, measurements,
\* sigma, n), which stops at the shortest of the four and never raises
CallObjectiveZip ==
    /\ pc = "lengths"
    /\ pc' = "summed"
    /\ LET bases == RescaleSplineBases(args.sim_all, args.N)
           n     == IntervalsPerSim(bases)
       IN  ret' = [ raised |-> FALSE,
                    obj    |-> CalculateObjectiveFunction(args.s, args.sim_all,
                                   args.measurements, args.sigma, args.N,
                                   bases.delta_c, bases.c, n),
                    terms  |-> ZipLen(args.sim_all, args.measurements,
                                      args.sigma, n) ]
    /\ UNCHANGED <<args, otherVars>>

NextLengths == CallObjectiveZip

SpecLengths == InitLengths /\ [][NextLengths]_vars

MismatchedLengths ==
    ~(Len(args.sim_all) = Len(args.measurements)
        /\ Len(args.sim_all) = Len(args.sigma))

\* C13: group data whose simulation, measurement, sigma and interval arrays
\* do not all have the same length K is rejected with an error; no objective
\* value is computed from a truncated subset of the observations.
C13_MismatchedLengthsRaise ==
    (pc = "summed" /\ MismatchedLengths) => ret.raised

\* What the code does instead: it returns the objective of the first
\* min(length) observations
MismatchedLengthsTruncate ==
    (pc = "summed" /\ MismatchedLengths) =>
        /\ ~ret.raised
        /\ ret.terms < Len(args.sim_all) \/ ret.terms < Len(args.measurements)
              \/ ret.terms < Len(args.sigma)
        /\ LET bases == RescaleSplineBases(args.sim_all, args.N)
               n     == IntervalsPerSim(bases)
               cut   == [a \in {"sim_all", "measurements", "sigma"} |->
                            SubSeq(args[a], 1, ret.terms)]
           IN  ret.obj = CalculateObjectiveFunction(args.s, cut["sim_all"],
                             cut["measurements"], cut["sigma"], args.N,
                             bases.delta_c, bases.c, SubSeq(n, 1, ret.terms))


(***************************************************************************)
(* calculate_spline_bases_gradient                                         *)
(***************************************************************************)

\* np.full(N, fill_value)
Full(N, fill_value) == [j \in Range(N) |-> fill_value]

CalculateSplineBasesGradient(sim_all, sy_all, N) ==
    LET min_idx == ArgMin(sim_all)
        max_idx == ArgMax(sim_all)
    IN  IF RLt(RSub(At(sim_all, max_idx), At(sim_all, min_idx)),
               Rat(MIN_SIM_RANGE))
        THEN [delta_c_dot |-> Zero,
              c_dot |-> Full(N, RDiv(RSub(At(sy_all, max_idx),
                                          At(sy_all, min_idx)), Rat(2)))]
        ELSE [delta_c_dot |-> RDiv(RSub(At(sy_all, max_idx),
                                        At(sy_all, min_idx)), Rat(N - 1)),
              c_dot |-> Linspace(At(sy_all, min_idx), At(sy_all, max_idx), N)]

(***************************************************************************)
(* SpecBasesGradient: the spline bases and their derivative along sy       *)
(***************************************************************************)

BasesGradientCounts == {2, 3}

BasesGradientInputs ==
    UNION {[ sim_all : [1 .. K -> {Rat(0), Rat(1), Rat(2), Rat(4)}],
             sy_all  : [1 .. K -> {Rat(-1), Rat(0), Rat(1)}],
             N       : {2, 3} ] : K \in BasesGradientCounts}

InitBasesGradient ==
    /\ pc = "bases"
    /\ args \in BasesGradientInputs
    /\ ret = [delta_c_dot |-> Zero, c_dot |-> <<>>]
    /\ OthersUnused

CallBasesGradient ==
    /\ pc = "bases"
    /\ pc' = "differentiated"
    /\ ret' = CalculateSplineBasesGradient(args.sim_all, args.sy_all, args.N)
    /\ UNCHANGED <<args, otherVars>>

NextBasesGradient == CallBasesGradient

SpecBasesGradient == InitBasesGradient /\ [][NextBasesGradient]_vars

\* The step t of the perturbation sim + t * sy
PerturbationStep == Q(1, 8)

Perturbed(sim_all, sy_all) ==
    [k \in DOMAIN sim_all |-> RAdd(sim_all[k], RMul(PerturbationStep, sy_all[k]))]

\* "degenerate-zero", "degenerate-centred" or "apart": the branch
\* _rescale_spline_bases takes for sim_all
BranchOf(sim_all) ==
    LET min_all == SeqMin(sim_all)
        max_all == SeqMax(sim_all)
    IN  IF RLt(RSub(max_all, min_all), Rat(MIN_SIM_RANGE))
        THEN IF RLt(RDiv(RAdd(max_all, min_all), Rat(2)),
                    RDiv(Rat(MIN_SIM_RANGE), Rat(2)))
             THEN "degenerate-zero" ELSE "degenerate-centred"
        ELSE "apart"

SameBranch(sim_all, sy_all) ==
    LET moved == Perturbed(sim_all, sy_all)
    IN  /\ BranchOf(moved) = BranchOf(sim_all)
        /\ ArgMin(moved) = ArgMin(sim_all)
        /\ ArgMax(moved) = ArgMax(sim_all)

BasesMoveAsPredicted ==
    LET before == RescaleSplineBases(args.sim_all, args.N)
        after  == RescaleSplineBases(Perturbed(args.sim_all, args.sy_all), args.N)
    IN  /\ \A j \in Range(args.N) :
               RSub(after.c[j], before.c[j]) = RMul(PerturbationStep, ret.c_dot[j])
        /\ RSub(after.delta_c, before.delta_c)
               = RMul(PerturbationStep, ret.delta_c_dot)

\* C16: calculate_spline_bases_gradient is the directional derivative of
\* _rescale_spline_bases: while sim + t*sy stays in the same branch with the
\* same argmin and argmax, the breakpoints move by t*c_dot and the spacing
\* by t*delta_c_dot, in the non-degenerate and in both degenerate branches.
C16_BasesGradientIsDirectionalDerivative ==
    (pc = "differentiated" /\ SameBranch(args.sim_all, args.sy_all))
        => BasesMoveAsPredicted

\* What the code guarantees: the relation in the non-degenerate branch
BasesGradientWhenApart ==
    (pc = "differentiated" /\ SameBranch(args.sim_all, args.sy_all)
         /\ BranchOf(args.sim_all) = "apart")
        => BasesMoveAsPredicted


(***************************************************************************)
(* calculate_inner_hessian                                                 *)
(***************************************************************************)

\* c[i - 1] as Python indexes it: index -1 is the last element of c
PyIndex(c, N, idx) == c[(idx + N) % N]

\* one pass of the loop body of calculate_inner_hessian
HessianStep(hessian, y_k, sigma_k, n_k, N, delta_c, c) ==
    LET i == n_k - 1
        weight_k == RDiv(Rat(1), RSq(sigma_k))
        slope == RDiv(RSub(y_k, PyIndex(c, N, i - 1)), delta_c)
    IN  [jh \in Range(N) \X Range(N) |->
            LET j == jh[1]
                h == jh[2]
            IN  IF j = i /\ h = i
                THEN RAdd(hessian[jh], RMul(weight_k, RSq(slope)))
                ELSE IF (j = i /\ h < i) \/ (h = i /\ j < i)
                THEN RAdd(hessian[jh], RMul(weight_k, slope))
                ELSE IF j < i /\ h < i
                THEN RAdd(hessian[jh], weight_k)
                ELSE hessian[jh]]

RECURSIVE HessianLoop(_, _, _, _, _, _, _)
HessianLoop(k, sim_all, sigma, N, delta_c, c, n) ==
    IF k = 0 THEN [jh \in Range(N) \X Range(N) |-> Zero]
    ELSE HessianStep(HessianLoop(k - 1, sim_all, sigma, N, delta_c, c, n),
                     sim_all[k], sigma[k], n[k], N, delta_c, c)

CalculateInnerHessian(s, sim_all, sigma, N, delta_c, c, n) ==
    HessianLoop(Min2(Len(sim_all), Min2(Len(sigma), Len(n))),
                sim_all, sigma, N, delta_c, c, n)

(***************************************************************************)
(* SpecHessian: the Hessian against the gradient                           *)
(***************************************************************************)

HessianCounts == {2, 3}

HessianInputs ==
    UNION {[ s            : [Range(N) -> {Rat(0), Rat(1)}],
             sim_all      : [1 .. K -> {Rat(0), Rat(2), Rat(4)}],
             measurements : [1 .. K -> {Rat(1)}],
             sigma        : [1 .. K -> {Rat(1), Rat(2)}],
             N            : {N} ] :
               N \in {2, 3}, K \in HessianCounts}

InitHessian ==
    /\ pc = "hessian"
    /\ args \in HessianInputs
    /\ ret = <<>>
    /\ OthersUnused

\* calculate_inner_hessian on bases rescaled to the simulation
CallHessian ==
    /\ pc = "hessian"
    /\ pc' = "curved"
    /\ LET bases == RescaleSplineBases(args.sim_all, args.N)
       IN  ret' = CalculateInnerHessian(args.s, args.sim_all, args.sigma, args.N,
                      bases.delta_c, bases.c, IntervalsPerSim(bases))
    /\ UNCHANGED <<args, otherVars>>

NextHessian == CallHessian

SpecHessian == InitHessian /\ [][NextHessian]_vars

\* s + e_h
UnitShift(s, h) == [j \in DOMAIN s |-> IF j = h THEN RAdd(s[j], Rat(1)) ELSE s[j]]

GradientOfArgs(s) ==
    LET bases == RescaleSplineBases(args.sim_all, args.N)
    IN  CalculateInnerGradient(s, args.sim_all, args.measurements, args.sigma,
            args.N, bases.delta_c, bases.c, IntervalsPerSim(bases))

\* (gradient(s + e_h)[j] - gradient(s)[j]) / 1
GradientQuotient(j, h) ==
    RSub(GradientOfArgs(UnitShift(args.s, h))[j], GradientOfArgs(args.s)[j])

HessianIsGradientQuotient ==
    \A j \in Range(args.N), h \in Range(args.N) :
        ret[<<j, h>>] = GradientQuotient(j, h)

InFirstInterval ==
    LET n == IntervalsPerSim(RescaleSplineBases(args.sim_all, args.N))
    IN  \E k \in DOMAIN n : n[k] = 1

\* C17: calculate_inner_hessian is the matrix of second derivatives of the
\* objective: entry (j, h) is the difference quotient of gradient component
\* j in direction e_h, also when observations lie in the first interval.
C17_HessianIsSecondDerivative ==
    pc = "curved" => HessianIsGradientQuotient

\* What the code guarantees: the relation when no observation is assigned
\* to the first interval
HessianAwayFromFirstInterval ==
    (pc = "curved" /\ ~InFirstInterval) => HessianIsGradientQuotient


(***************************************************************************)
(* get_spline_mapped_simulations                                           *)
(***************************************************************************)

\* (mutant) heights that leave out the own increment: np.sum(s[:i])
XiExclusive(s) == [i \in Range(Cardinality(DOMAIN s)) |-> SumPrefix(s, i)]

\* xi[i] = np.sum(s[: i + 1])
Xi(s) == [i \in Range(Cardinality(DOMAIN s)) |-> SumPrefix(s, i + 1)]

MappedSimulation(xi, y_k, n_k, N, delta_c, c) ==
    LET interval_index == n_k - 1
    IN  IF interval_index = 0 \/ interval_index = N
        THEN xi[interval_index]
        ELSE RAdd(RDiv(RMul(RSub(y_k, c[interval_index - 1]),
                            RSub(xi[interval_index], xi[interval_index - 1])),
                       delta_c),
                  xi[interval_index - 1])

GetSplineMappedSimulations(s, sim_all, N, delta_c, c, n) ==
    LET xi == Xi(s)
    IN  [index \in 1 .. Len(sim_all) |->
            IF index <= Min2(Len(sim_all), Len(n))
            THEN MappedSimulation(xi, sim_all[index], n[index], N, delta_c, c)
            ELSE Zero]

(***************************************************************************)
(* SpecMapped: the spline applied to the simulations                       *)
(***************************************************************************)

\* The arguments of test_get_spline_mapped_simulations
TestSplineParameters == [j \in Range(5) |-> Rat(<<2, 4, 6, 8, 15>>[j + 1])]
TestSimulation ==
    <<Rat(1), Q(3, 2), Rat(2), Q(5, 2), Rat(3), Q(7, 2), Rat(4), Q(21, 5), Rat(5)>>
TestSimulationIntervals == <<1, 2, 3, 3, 4, 4, 5, 5, 5>>
TestMappedInput ==
    [ s       |-> TestSplineParameters,
      sim_all |-> TestSimulation,
      N       |-> 5,
      delta_c |-> Rat(1),
      c       |-> [j \in Range(5) |-> Rat(j + 1)],
      n       |-> TestSimulationIntervals ]
ExpectedSplineMappedSimulations == RatSeq(<<2, 4, 6, 9, 12, 16, 20, 23, 35>>)

\* Arguments as _optimize_spline would pass them: bases rescaled to sim_all
MappedArguments(s, sim_all, N) ==
    LET bases == RescaleSplineBases(sim_all, N)
    IN  [ s |-> s, sim_all |-> sim_all, N |-> N, delta_c |-> bases.delta_c,
          c |-> bases.c, n |-> IntervalsPerSim(bases) ]

MappedCounts == {2, 3}

MappedInputs ==
    {TestMappedInput} \cup
    UNION {{MappedArguments(s, sim_all, N) :
                s \in [Range(N) -> {Rat(0), Rat(1), Rat(2)}],
                sim_all \in [1 .. K -> {Rat(0), Rat(1), Rat(2), Rat(4)}]} :
               N \in {2, 3}, K \in MappedCounts}

InitMapped ==
    /\ pc = "simulated"
    /\ args \in MappedInputs
    /\ ret = <<>>
    /\ OthersUnused

CallMapped ==
    /\ pc = "simulated"
    /\ pc' = "mapped"
    /\ ret' = GetSplineMappedSimulations(args.s, args.sim_all, args.N,
                                         args.delta_c, args.c, args.n)
    /\ UNCHANGED <<args, otherVars>>

NextMapped == CallMapped

SpecMapped == InitMapped /\ [][NextMapped]_vars

\* xi[i] = s[0] + ... + s[i], written out
CumulativeHeight(i) == SumPrefix(args.s, i + 1)

\* C18: an observation in interval 1 maps to xi[0]; an observation in
\* interval i+1 > 1 maps to xi[i-1] + (y - c[i-1]) * s[i] / delta_c; hence an
\* observation on breakpoint c[j] maps to xi[j]; the arguments of
\* test_get_spline_mapped_simulations give [2,4,6,9,12,16,20,23,35].
C18_PiecewiseLinearInterpolation ==
    pc = "mapped" =>
        /\ Len(ret) = Len(args.sim_all)
        /\ \A k \in DOMAIN args.sim_all :
              LET i == args.n[k] - 1
                  y == args.sim_all[k]
              IN  /\ i = 0 => ret[k] = CumulativeHeight(0)
                  /\ i > 0 =>
                        ret[k] = RAdd(CumulativeHeight(i - 1),
                                      RDiv(RMul(RSub(y, args.c[i - 1]), args.s[i]),
                                           args.delta_c))
                  /\ \A j \in Range(args.N) :
                        y = args.c[j] => ret[k] = CumulativeHeight(j)
        /\ args = TestMappedInput => ret = ExpectedSplineMappedSimulations

\* The test arguments were mapped: they hold observations on the breakpoints
\* c[0], ..., c[4] and observations strictly inside intervals 2, 4 and 5
C18_Witness ==
    /\ pc = "mapped"
    /\ args = TestMappedInput
    /\ ret = ExpectedSplineMappedSimulations
    /\ \A j \in Range(args.N) :
          \E k \in DOMAIN args.sim_all : args.sim_all[k] = args.c[j]
    /\ \E k \in DOMAIN args.sim_all :
          /\ args.n[k] = 5
          /\ RLt(args.c[3], args.sim_all[k])
          /\ RLt(args.sim_all[k], args.c[4])


(***************************************************************************)
(* SpecMask: extract_expdata_using_mask on its own                         *)
(***************************************************************************)

\* The arguments of test_extract_expdata_using_mask
TestExpdata == << <<1, 2, 3, 4, 5>>, <<6, 7, 8, 9, 10>> >>
TestMask == << <<TRUE, FALSE, TRUE, FALSE, TRUE>>,
               <<FALSE, TRUE, FALSE, TRUE, FALSE>> >>
TestExtracted == <<1, 3, 5, 7, 9>>

MaskLengths == {1, 2}
MaskConditions == {1, 2}

\* One condition: an array and a boolean mask of the same length
MaskedArrays ==
    UNION {[1 .. L -> {1, 2, 3}] \X [1 .. L -> BOOLEAN] : L \in MaskLengths}

MaskInputs ==
    {[expdata |-> TestExpdata, mask |-> TestMask]} \cup
    UNION {{[expdata |-> [ci \in 1 .. C |-> conditions[ci][1]],
             mask    |-> [ci \in 1 .. C |-> conditions[ci][2]]] :
                conditions \in [1 .. C -> MaskedArrays]} : C \in MaskConditions}

InitMask ==
    /\ pc = "masking"
    /\ args \in MaskInputs
    /\ ret = <<>>
    /\ OthersUnused

CallExtract ==
    /\ pc = "masking"
    /\ pc' = "extracted"
    /\ ret' = ExtractExpdataUsingMask(args.expdata, args.mask)
    /\ UNCHANGED <<args, otherVars>>

NextMask == CallExtract

SpecMask == InitMask /\ [][NextMask]_vars

\* The entries the mask selects, as <<condition, index>> pairs
Selected ==
    UNION {{<<condition, i>> : i \in {k \in DOMAIN args.mask[condition] :
                                         args.mask[condition][k]}} :
               condition \in DOMAIN args.mask}

\* The rank of a selected entry: condition order first, then the order
\* inside the condition
RankOf(ci) ==
    Cardinality({other \in Selected :
                    \/ other[1] < ci[1]
                    \/ other[1] = ci[1] /\ other[2] <= ci[2]})

\* C20: extract_expdata_using_mask returns, in condition order and in the
\* order inside each condition, exactly the entries whose mask is true; its
\* length is the number of true mask entries; the arguments of
\* test_extract_expdata_using_mask give [1,3,5,7,9].
C20_MaskExtraction ==
    pc = "extracted" =>
        /\ Len(ret) = Cardinality(Selected)
        /\ \A ci \in Selected : ret[RankOf(ci)] = args.expdata[ci[1]][ci[2]]
        /\ (args.expdata = TestExpdata /\ args.mask = TestMask)
               => ret = TestExtracted

\* The test arguments were extracted: both conditions contribute, each
\* with selected and with dropped entries
C20_Witness ==
    /\ pc = "extracted"
    /\ args.expdata = TestExpdata
    /\ args.mask = TestMask
    /\ ret = TestExtracted
    /\ \A condition \in DOMAIN args.mask :
          /\ \E i \in DOMAIN args.mask[condition] : args.mask[condition][i]
          /\ \E i \in DOMAIN args.mask[condition] : ~args.mask[condition][i]


(***************************************************************************)
(* SplineInnerSolver.calculate_gradients                                   *)
(***************************************************************************)

\* one pass of the loop body of calculate_df_dyk
DfDykTerm(y_k, z_k, y_dot_k, sigma_k, n_k, s, N, delta_c, delta_c_dot, c, c_dot) ==
    LET i == n_k - 1
    IN  IF i > 0 /\ i < N
        THEN RDiv(RMul(RMul(RMul(RDiv(Rat(1), RSq(sigma_k)),
                                 RSub(Interpolate(s, y_k, i, delta_c, c), z_k)),
                            s[i]),
                       RSub(RMul(RSub(y_dot_k, c_dot[i - 1]), delta_c),
                            RMul(RSub(y_k, c[i - 1]), delta_c_dot))),
                  RSq(delta_c))
        ELSE Zero

RECURSIVE DfDykLoop(_, _, _, _, _, _, _, _, _, _, _, _)
DfDykLoop(k, sim_all, sy_all, measurements, sigma, s, N, delta_c, delta_c_dot, c, c_dot, n) ==
    IF k = 0 THEN Zero
    ELSE RAdd(DfDykLoop(k - 1, sim_all, sy_all, measurements, sigma, s, N,
                        delta_c, delta_c_dot, c, c_dot, n),
              DfDykTerm(sim_all[k], measurements[k], sy_all[k], sigma[k], n[k],
                        s, N, delta_c, delta_c_dot, c, c_dot))

CalculateDfDyk(sim_all, sy_all, measurements, sigma, s, N, delta_c, delta_c_dot, c, c_dot, n) ==
    DfDykLoop(Min2(ZipLen(sim_all, measurements, sigma, n), Len(sy_all)),
              sim_all, sy_all, measurements, sigma, s, N, delta_c, delta_c_dot,
              c, c_dot, n)

\* list.index(x): the first 0-based position of x
ListIndex(list, x) ==
    CHOOSE i \in Range(Len(list)) :
        /\ list[i + 1] = x
        /\ \A j \in Range(i) : list[j + 1] # x

\* (mutant) the test without the set of parameters already calculated
SkipNonStrings(par_opt, already_calculated) == par_opt.type # "str"

\* The test that makes the loop "continue"
Skip(par_opt, already_calculated) ==
    par_opt.type # "str" \/ par_opt.text \in already_calculated

(***************************************************************************)
(* The inner problem the gradient is computed for: two conditions with     *)
(* three observations each, two groups that each take observations of      *)
(* both conditions, as solve(sim, sigma) left it                           *)
(***************************************************************************)

GradientData == << RatSeq(<<0, 2, 0>>), RatSeq(<<1, 2, 1>>) >>
GradientSim == << RatSeq(<<0, 2, 0>>), RatSeq(<<4, 2, 4>>) >>
GradientSigma == << RatSeq(<<1, 1, 1>>), RatSeq(<<1, 1, 1>>) >>

GradientGroups ==
    << Group(GradientData, << <<TRUE, TRUE, FALSE>>, <<TRUE, FALSE, FALSE>> >>, 2),
       Group(GradientData, << <<FALSE, FALSE, TRUE>>, <<FALSE, TRUE, TRUE>> >>, 2) >>

\* group_dict with the entries solve() wrote
GradientGroupDict(group) ==
    [ group_dict |-> GradientGroups[group],
      snapshot   |-> Snapshot(GradientGroups[group], GradientSim, GradientSigma) ]

\* results[group]['x'] of that solve: the least-squares line through
\* (0, 0), (2, 2), (4, 1) has s = (1/2, 1), inside the bounds
GradientInnerOpt == << [x |-> (0 :> Q(1, 2) @@ 1 :> Rat(1))],
                       [x |-> (0 :> Q(1, 2) @@ 1 :> Rat(1))] >>

par_sim_ids == <<"k1", "k2">>
par_opt_ids == <<"theta1", "theta2">>

\* mu of a group: the inner gradient at x_inner_opt
Mu(group_idx) ==
    LET g     == GradientGroupDict(group_idx + 1)
        N     == g.group_dict.n_spline_pars
        bases == RescaleSplineBases(g.snapshot.current_simulation, N)
    IN  CalculateInnerGradient(GradientInnerOpt[group_idx + 1].x,
            g.snapshot.current_simulation, g.group_dict.datapoints,
            g.snapshot.noise_parameters, N, bases.delta_c, bases.c,
            IntervalsPerSim(bases))

\* np.any(mu)
AnyMu(group_idx) ==
    \E j \in DOMAIN Mu(group_idx) : Mu(group_idx)[j] # Zero

\* What one pass of the loop over the groups adds to grad when mu is zero
GroupGradient(group_idx, sy_for_outer_parameter) ==
    LET g      == GradientGroupDict(group_idx + 1)
        s      == GradientInnerOpt[group_idx + 1].x
        N      == g.group_dict.n_spline_pars
        sy_all == ExtractExpdataUsingMask(sy_for_outer_parameter,
                                          g.group_dict.expdata_mask)
        bases  == RescaleSplineBases(g.snapshot.current_simulation, N)
        dot    == CalculateSplineBasesGradient(g.snapshot.current_simulation,
                                               sy_all, N)
    IN  CalculateDfDyk(g.snapshot.current_simulation, sy_all,
            g.group_dict.datapoints, g.snapshot.noise_parameters, s, N,
            bases.delta_c, dot.delta_c_dot, bases.c, dot.c_dot,
            IntervalsPerSim(bases))

RECURSIVE GroupsLoop(_, _)
GroupsLoop(group_count, sy_for_outer_parameter) ==
    IF group_count = 0 THEN Zero
    ELSE RAdd(GroupsLoop(group_count - 1, sy_for_outer_parameter),
              GroupGradient(group_count - 1, sy_for_outer_parameter))

\* [sy_cond[:, par_sim_idx, :] for sy_cond in sy]
SyForOuterParameter(sy, par_sim_idx) ==
    [condition \in DOMAIN sy |-> sy[condition][par_sim_idx]]

\* The (par_sim, par_opt) items of all conditions in iteration order
RECURSIVE MappingItems(_, _)
MappingItems(parameter_mapping, condition) ==
    IF condition > Len(parameter_mapping) THEN <<>>
    ELSE parameter_mapping[condition]
             \o MappingItems(parameter_mapping, condition + 1)

\* The two nested loops over the conditions and their items, from item k on
RECURSIVE GradientsLoop(_, _, _, _)
GradientsLoop(items, k, sy, st) ==
    IF k > Len(items) THEN st
    ELSE LET par_sim == items[k][1]
             par_opt == items[k][2]
         IN  IF Skip(par_opt, st.already_calculated)
             THEN GradientsLoop(items, k + 1, sy, st)
             ELSE LET par_sim_idx == ListIndex(par_sim_ids, par_sim)
                      par_opt_idx == ListIndex(par_opt_ids, par_opt.text)
                      grad == GroupsLoop(Len(GradientGroups),
                                         SyForOuterParameter(sy, par_sim_idx))
                  IN  GradientsLoop(items, k + 1, sy,
                          [ already_calculated |->
                                st.already_calculated \cup {par_opt.text},
                            snllh     |-> [st.snllh EXCEPT ![par_opt_idx] = grad],
                            processed |-> Append(st.processed, par_opt.text),
                            written   |-> Append(st.written, par_opt_idx) ])

\* snllh filled in; processed and written record the order of the passes
CalculateGradients(parameter_mapping, sy, snllh) ==
    GradientsLoop(MappingItems(parameter_mapping, 1), 1, sy,
                  [ already_calculated |-> {}, snllh |-> snllh,
                    processed |-> <<>>, written |-> <<>> ])

(***************************************************************************)
(* SpecGradients                                                           *)
(***************************************************************************)

\* What a simulation parameter maps to: an outer parameter id or a number
MappedTo == {PyStr("theta1"), PyStr("theta2"), PyFloat(Rat(1))}

\* map_sim_var of one condition, as its items
ConditionMaps ==
    {<< <<"k1", a>>, <<"k2", b>> >> : a \in MappedTo, b \in MappedTo}

\* sy_cond[:, par_sim_idx, :] of one condition and one simulation parameter
SensitivityArrays == {RatSeq(<<0, 0, 0>>), RatSeq(<<1, 0, 2>>)}

GradientsInputs ==
    [ parameter_mapping : [1 .. 2 -> ConditionMaps],
      sy : [1 .. 2 -> [Range(2) -> SensitivityArrays]] ]

InitGradients ==
    /\ pc = "gradients"
    /\ args \in GradientsInputs
    /\ ret = [already_calculated |-> {}, snllh |-> [i \in Range(2) |-> Zero],
              processed |-> <<>>, written |-> <<>>]
    /\ OthersUnused

\* calculate_gradients at an inner optimum where mu is zero for every group,
\* so that the df_ds term (calculate_ds_dtheta) is skipped
CallCalculateGradients ==
    /\ pc = "gradients"
    /\ \A group_idx \in Range(Len(GradientGroups)) : ~AnyMu(group_idx)
    /\ pc' = "accumulated"
    /\ ret' = CalculateGradients(args.parameter_mapping, args.sy, ret.snllh)
    /\ UNCHANGED <<args, otherVars>>

NextGradients == CallCalculateGradients

SpecGradients == InitGradients /\ [][NextGradients]_vars

\* The (condition, par_sim index) pairs that map to the outer parameter
MapsTo(theta) ==
    {cp \in (DOMAIN args.parameter_mapping) \X Range(Len(par_sim_ids)) :
        \E k \in DOMAIN args.parameter_mapping[cp[1]] :
            /\ args.parameter_mapping[cp[1]][k][1] = par_sim_ids[cp[2] + 1]
            /\ args.parameter_mapping[cp[1]][k][2] = PyStr(theta)}

Occurrences(seq, x) == Cardinality({k \in DOMAIN seq : seq[k] = x})

\* C14: within one calculate_gradients call every distinct outer parameter
\* id of the mapping is processed exactly once, however many conditions or
\* simulation parameters map to it, and every index of the outer gradient
\* vector is written at most once.
C14_EachOuterParameterOnce ==
    pc = "accumulated" =>
        /\ \A k \in DOMAIN par_opt_ids :
              Occurrences(ret.processed, par_opt_ids[k])
                  = IF MapsTo(par_opt_ids[k]) = {} THEN 0 ELSE 1
        /\ \A idx \in Range(Len(par_opt_ids)) : Occurrences(ret.written, idx) <= 1

\* theta1 is mapped to by both simulation parameters in both conditions
\* and by nothing else, and was processed
C14_Witness ==
    /\ pc = "accumulated"
    /\ Cardinality(MapsTo("theta1")) = 4
    /\ ret.processed = <<"theta1">>
    /\ ret.written = <<0>>

\* The sensitivity of each condition's simulation with respect to theta:
\* the sum over the simulation parameters theta maps to in that condition
TotalSensitivity(theta) ==
    [condition \in DOMAIN args.sy |->
        [obs \in 1 .. 3 |->
            LET of(idx) == IF <<condition, idx>> \in MapsTo(theta)
                           THEN args.sy[condition][idx][obs] ELSE Zero
            IN  RAdd(of(0), of(1))]]

\* C15: the entry written for theta is the sum, over all groups, of the
\* contributions of every condition and every simulation parameter that
\* theta maps to.
C15_GradientSumsAllMappedSensitivities ==
    pc = "accumulated" =>
        \A k \in DOMAIN ret.processed :
            LET theta == ret.processed[k]
            IN  ret.snllh[ListIndex(par_opt_ids, theta)]
                    = GroupsLoop(Len(GradientGroups), TotalSensitivity(theta))

\* What the code does instead: it takes, in every condition, the
\* sensitivities with respect to the first simulation parameter found to
\* map to theta
FirstMappedParameter(theta) ==
    LET items == MappingItems(args.parameter_mapping, 1)
        first == CHOOSE k \in DOMAIN items :
                     /\ items[k][2] = PyStr(theta)
                     /\ \A j \in 1 .. (k - 1) : items[j][2] # PyStr(theta)
    IN  ListIndex(par_sim_ids, items[first][1])

GradientUsesFirstMappedParameter ==
    pc = "accumulated" =>
        \A k \in DOMAIN ret.processed :
            LET theta == ret.processed[k]
            IN  ret.snllh[ListIndex(par_opt_ids, theta)]
                    = GroupsLoop(Len(GradientGroups),
                          SyForOuterParameter(args.sy, FirstMappedParameter(theta)))


(***************************************************************************)
(* get_monotonicity_measure                                                *)
(***************************************************************************)

\* sorted(seq, key=...): Python's sort is stable, so the element at index k
\* lands at position 1 + the number of elements with a smaller key or with
\* the same key and a smaller index
StableRank(keys, k) ==
    1 + Cardinality({j \in DOMAIN keys :
                        keys[j] < keys[k] \/ (keys[j] = keys[k] /\ j < k)})

SortedByKey(values, keys) ==
    [pos \in DOMAIN values |->
        values[CHOOSE k \in DOMAIN keys : StableRank(keys, k) = pos]]

\* (mutant) pairs counted when the simulation rises instead of falls
CountsWhenAscending(ordered_simulation, ordered_measurement, i, j) ==
    \/ ordered_simulation[i] < ordered_simulation[j]
    \/ /\ ordered_simulation[i] = ordered_simulation[j]
       /\ ordered_measurement[i] # ordered_measurement[j]

\* the if / elif under which "inversions += 1" runs
CountsAsInversion(ordered_simulation, ordered_measurement, i, j) ==
    \/ ordered_simulation[i] > ordered_simulation[j]
    \/ /\ ordered_simulation[i] = ordered_simulation[j]
       /\ ordered_measurement[i] # ordered_measurement[j]

\* [raised, inversions]
GetMonotonicityMeasure(measurement, simulation) ==
    IF Len(measurement) # Len(simulation)
    THEN [raised |-> TRUE, inversions |-> 0]
    ELSE LET ordered_simulation  == SortedByKey(simulation, measurement)
             ordered_measurement == SortedByKey(simulation, simulation)
         IN  [ raised |-> FALSE,
               inversions |->
                   Cardinality({ij \in (DOMAIN simulation) \X (DOMAIN simulation) :
                       /\ ij[1] < ij[2]
                       /\ CountsAsInversion(ordered_simulation,
                              ordered_measurement, ij[1], ij[2])}) ]

(***************************************************************************)
(* SpecMonotonicity                                                        *)
(***************************************************************************)

MonotonicityLengths == {2, 3}

MonotonicityInputs ==
    { [measurement |-> <<1, 2, 3, 4, 5>>, simulation |-> <<1, 2, 3, 4, 5>>],
      [measurement |-> <<1, 2, 3, 4, 5>>, simulation |-> <<5, 4, 3, 2, 1>>] }
    \cup UNION {[ measurement : [1 .. Lm -> {1, 2, 3}],
                  simulation  : [1 .. Ls -> {1, 2, 3}] ] :
                    Lm \in MonotonicityLengths, Ls \in MonotonicityLengths}

InitMonotonicity ==
    /\ pc = "measured"
    /\ args \in MonotonicityInputs
    /\ ret = [raised |-> FALSE, inversions |-> 0]
    /\ OthersUnused

CallMonotonicity ==
    /\ pc = "measured"
    /\ pc' = "counted"
    /\ ret' = GetMonotonicityMeasure(args.measurement, args.simulation)
    /\ UNCHANGED <<args, otherVars>>

NextMonotonicity == CallMonotonicity

SpecMonotonicity == InitMonotonicity /\ [][NextMonotonicity]_vars

PairwiseDistinct(v) == \A i, j \in DOMAIN v : i # j => v[i] # v[j]

\* n (n - 1) / 2
PairCount(n) == (n * (n - 1)) \div 2

\* C21: for vectors of equal length n with pairwise distinct values the
\* measure is the number of pairs (i, j) with measurement[i] < measurement[j]
\* and simulation[i] > simulation[j]: 0 for the same ordering, n(n-1)/2 for
\* the reversed ordering (10 for n = 5), and always within [0, n(n-1)/2].
C21_MeasureCountsInversions ==
    ( /\ pc = "counted"
      /\ Len(args.measurement) = Len(args.simulation)
      /\ PairwiseDistinct(args.measurement)
      /\ PairwiseDistinct(args.simulation) ) =>
        LET n == Len(args.measurement)
            I == DOMAIN args.measurement
            pairs == {ij \in I \X I :
                         /\ args.measurement[ij[1]] < args.measurement[ij[2]]
                         /\ args.simulation[ij[1]] > args.simulation[ij[2]]}
            same == \A i, j \in I :
                        args.measurement[i] < args.measurement[j]
                            <=> args.simulation[i] < args.simulation[j]
            reversed == \A i, j \in I :
                            args.measurement[i] < args.measurement[j]
                                <=> args.simulation[i] > args.simulation[j]
        IN  /\ ~ret.raised
            /\ ret.inversions = Cardinality(pairs)
            /\ same => ret.inversions = 0
            /\ reversed => ret.inversions = PairCount(n)
            /\ (reversed /\ n = 5) => ret.inversions = 10
            /\ ret.inversions >= 0
            /\ ret.inversions <= PairCount(n)

\* The reversed vectors of test_get_monotonicity_measure were measured
C21_Witness ==
    /\ pc = "counted"
    /\ args.measurement = <<1, 2, 3, 4, 5>>
    /\ args.simulation = <<5, 4, 3, 2, 1>>
    /\ ret = [raised |-> FALSE, inversions |-> 10]


(***************************************************************************)
(* pesto/objective.py: Objective.__call__                                  *)
(*                                                                         *)
(* An Objective is the record of its attributes fun, grad, hess, res and   *)
(* sres, each "callable", "True" or "None".  A call is planned as the      *)
(* attributes it invokes, in order, and whether it indexes what fun        *)
(* returned with a tuple (fun(x)[0, 1]), which Python rejects.             *)
(***************************************************************************)

MODE_FUN == "MODE_FUN"
MODE_RES == "MODE_RES"

\* (mutant) a call that evaluates fun whatever is requested
PlanWithoutRejection(self, sensi_orders, mode) ==
    [error |-> "", calls |-> <<"fun">>, tuple_index |-> FALSE]

\* The branch of __call__ taken for the request
Plan(self, sensi_orders, mode) ==
    LET do(calls) == [error |-> "", calls |-> calls, tuple_index |-> FALSE]
        index(calls) == [error |-> "", calls |-> calls, tuple_index |-> TRUE]
        unsupported == [error |-> "ValueError", calls |-> <<>>,
                        tuple_index |-> FALSE]
    IN  IF mode = MODE_RES
        THEN IF sensi_orders = <<0>> THEN do(<<"res">>)
             ELSE IF sensi_orders = <<1>>
             THEN IF self.sres = "True" THEN do(<<"res">>) ELSE do(<<"sres">>)
             ELSE IF sensi_orders = <<0, 1>>
             THEN IF self.sres = "True" THEN do(<<"res">>)
                  ELSE do(<<"res", "sres">>)
             ELSE unsupported
        ELSE IF mode = MODE_FUN
        THEN IF sensi_orders = <<0>> THEN do(<<"fun">>)
             ELSE IF sensi_orders = <<1>>
             THEN IF self.grad = "True" THEN do(<<"fun">>) ELSE do(<<"grad">>)
             ELSE IF sensi_orders = <<2>>
             THEN IF self.hess = "True" THEN do(<<"fun">>) ELSE do(<<"hess">>)
             ELSE IF sensi_orders = <<0, 1>>
             THEN IF self.grad = "True" THEN index(<<"fun">>)
                  ELSE do(<<"fun", "grad">>)
             ELSE IF sensi_orders = <<1, 2>>
             THEN IF self.hess = "True" THEN index(<<"fun">>)
                  ELSE IF self.grad = "True" THEN do(<<"hess", "fun">>)
                  ELSE do(<<"hess", "grad">>)
             ELSE IF sensi_orders = <<0, 1, 2>>
             THEN IF self.hess = "True" THEN index(<<"fun">>)
                  ELSE IF self.grad = "True"
                       THEN [error |-> "", calls |-> <<"hess", "fun">>,
                             tuple_index |-> TRUE]
                  ELSE do(<<"hess", "fun", "grad">>)
             ELSE unsupported
        ELSE unsupported

\* The calls of a plan in order: an attribute that is not callable raises
\* TypeError and ends the call
RECURSIVE Invoke(_, _, _, _)
Invoke(self, calls, k, invoked) ==
    IF k > Len(calls) THEN [raised |-> "", invoked |-> invoked]
    ELSE IF self[calls[k]] # "callable"
    THEN [raised |-> "TypeError", invoked |-> invoked]
    ELSE Invoke(self, calls, k + 1, Append(invoked, calls[k]))

\* [raised, invoked]: the exception, if any, and the user callables run
ObjectiveCall(self, sensi_orders, mode) ==
    LET plan == Plan(self, sensi_orders, mode)
        done == Invoke(self, plan.calls, 1, <<>>)
    IN  IF plan.error # "" THEN [raised |-> plan.error, invoked |-> <<>>]
        ELSE IF done.raised = "" /\ plan.tuple_index
        THEN [raised |-> "TypeError", invoked |-> done.invoked]
        ELSE done

(***************************************************************************)
(* SpecObjective                                                           *)
(***************************************************************************)

Objectives ==
    [ fun  : {"callable"},
      grad : {"callable", "True", "None"},
      hess : {"callable", "True", "None"},
      res  : {"callable", "None"},
      sres : {"callable", "True", "None"} ]

SensiOrderTuples ==
    {<<>>} \cup UNION {[1 .. len -> {0, 1, 2}] : len \in {1, 2, 3}}

RequestModes == {MODE_FUN, MODE_RES, "MODE_HESS"}

InitObjective ==
    /\ pc = "objective"
    /\ args \in [self : Objectives, sensi_orders : SensiOrderTuples,
                  mode : RequestModes]
    /\ ret = [raised |-> "", invoked |-> <<>>]
    /\ OthersUnused

CallObjectiveCall ==
    /\ pc = "objective"
    /\ pc' = "answered"
    /\ ret' = ObjectiveCall(args.self, args.sensi_orders, args.mode)
    /\ UNCHANGED <<args, otherVars>>

NextObjective == CallObjectiveCall

SpecObjective == InitObjective /\ [][NextObjective]_vars

SupportedRequest ==
    \/ /\ args.mode = MODE_RES
       /\ args.sensi_orders \in {<<0>>, <<1>>, <<0, 1>>}
    \/ /\ args.mode = MODE_FUN
       /\ args.sensi_orders \in {<<0>>, <<1>>, <<2>>, <<0, 1>>, <<1, 2>>,
                                  <<0, 1, 2>>}

\* C22: a request outside the supported set (another mode, or sensitivity
\* orders other than (0,), (1,), (0,1) in residual mode and (0,), (1,), (2,),
\* (0,1), (1,2), (0,1,2) in function mode) raises at once, and none of
\* fun, grad, hess, res, sres has been invoked.
C22_UnsupportedRequestRaises ==
    (pc = "answered" /\ ~SupportedRequest) =>
        /\ ret.raised = "ValueError"
        /\ ret.invoked = <<>>

\* Second-order sensitivities were requested in residual mode from an
\* objective all of whose attributes are callables
C22_Witness ==
    /\ pc = "answered"
    /\ args.mode = MODE_RES
    /\ args.sensi_orders = <<2>>
    /\ \A a \in DOMAIN args.self : args.self[a] = "callable"
    /\ ret = [raised |-> "ValueError", invoked |-> <<>>]


(***************************************************************************)
(* pesto/objective.py: AmiciObjective.__call__                             *)
(*                                                                         *)
(* The simulation of condition k returns rdata with a status, the numbers  *)
(* llh, sllh, FIM (one number stands for each array) and m residuals.      *)
(* Residual j of condition k is the pair <<k, j>>; the row of sres that    *)
(* belongs to it is written <<k, j>> as well.                              *)
(***************************************************************************)

\* rdata of condition k: status 0 or -1, m residuals
Rdata(k, status, m) ==
    [ status |-> status, llh |-> k, sllh |-> k, FIM |-> k,
      res |-> [j \in 1 .. m |-> <<k, j>>], sres |-> [j \in 1 .. m |-> <<k, j>>] ]

\* max(sensi_orders) of a non-empty tuple
MaxOf(sensi_orders) ==
    CHOOSE o \in {sensi_orders[k] : k \in DOMAIN sensi_orders} :
        \A k \in DOMAIN sensi_orders : sensi_orders[k] <= o

Holds(sensi_orders, o) == \E k \in DOMAIN sensi_orders : sensi_orders[k] = o

\* map_to_output: the names of the outputs returned, in order
MapToOutput(mode, sensi_orders) ==
    IF mode = MODE_FUN
    THEN (IF Holds(sensi_orders, 0) THEN <<"fval">> ELSE <<>>)
           \o (IF Holds(sensi_orders, 1) THEN <<"grad">> ELSE <<>>)
           \o (IF Holds(sensi_orders, 2) THEN <<"hess">> ELSE <<>>)
    ELSE IF mode = MODE_RES
    THEN (IF Holds(sensi_orders, 0) THEN <<"res">> ELSE <<>>)
           \o (IF Holds(sensi_orders, 1) THEN <<"sres">> ELSE <<>>)
    ELSE <<>>

\* np.vstack([rdata['sres'], rdata['sres']]) if sres.size else rdata['sres']
StackSres(sres, rdata_sres, dim) ==
    IF Len(sres) * dim # 0 THEN rdata_sres \o rdata_sres ELSE rdata_sres

\* np.hstack([res, rdata['res']]) if res.size else rdata['res']
StackRes(res, rdata_res) ==
    IF Len(res) # 0 THEN res \o rdata_res ELSE rdata_res

\* The loop over the experimental data from condition k on; acc holds
\* nllh, snllh, ssnllh, res, sres
RECURSIVE EdataLoop(_, _, _, _, _, _)
EdataLoop(rdatas, k, mode, sensi_order, dim, acc) ==
    IF k > Len(rdatas) THEN acc
    ELSE LET rdata == rdatas[k]
         IN  IF rdata.status < 0
             THEN [acc EXCEPT !.failed = TRUE, !.res = <<>>, !.sres = <<>>]
             ELSE EdataLoop(rdatas, k + 1, mode, sensi_order, dim,
                    IF mode = MODE_FUN
                    THEN [acc EXCEPT
                            !.nllh = @ - rdata.llh,
                            !.snllh = IF sensi_order > 0 THEN @ - rdata.sllh ELSE @,
                            !.ssnllh = IF sensi_order > 0 THEN @ - rdata.FIM ELSE @]
                    ELSE IF mode = MODE_RES
                    THEN [acc EXCEPT
                            !.res = StackRes(@, rdata.res),
                            !.sres = IF sensi_order > 0
                                     THEN StackSres(@, rdata.sres, dim) ELSE @]
                    ELSE acc)

NothingReturned ==
    [ raised |-> "", outputs |-> <<>>, failed |-> FALSE,
      nllh |-> 0, snllh |-> 0, ssnllh |-> 0, res |-> <<>>, sres |-> <<>> ]

\* amici_imported: whether 'amici' is in sys.modules when the call starts.
\* The import statement in the body makes the name amici local to
\* __call__, so it is unbound at line 272 when the import is skipped.
AmiciObjectiveCall(self, rdatas, sensi_orders, mode, amici_imported) ==
    IF sensi_orders = <<>>
    THEN [NothingReturned EXCEPT !.raised = "ValueError"]
    ELSE IF MaxOf(sensi_orders) > self.max_sensi_order
    THEN [NothingReturned EXCEPT !.raised = "Exception"]
    ELSE IF amici_imported
    THEN [NothingReturned EXCEPT !.raised = "UnboundLocalError"]
    ELSE [EdataLoop(rdatas, 1, mode, MaxOf(sensi_orders), self.dim,
                    NothingReturned)
            EXCEPT !.outputs = MapToOutput(mode, sensi_orders)]

(***************************************************************************)
(* SpecAmici                                                               *)
(***************************************************************************)

EdataCounts == {1, 2, 3}

\* What the simulations of a call return, one rdata per condition
RdataLists ==
    UNION {{[k \in 1 .. count |-> Rdata(k, shape[k][1], shape[k][2])] :
                shape \in [1 .. count -> {0, -1} \X {1, 2}]} :
               count \in EdataCounts}

AmiciSensiOrders == {<<>>, <<0>>, <<1>>, <<0, 1>>, <<2>>}

InitAmici ==
    /\ pc = "amici"
    /\ args \in [ self : [max_sensi_order : {1}, dim : {1, 2}],
                   rdatas : RdataLists,
                   sensi_orders : AmiciSensiOrders,
                   mode : {MODE_FUN, MODE_RES},
                   amici_imported : BOOLEAN ]
    /\ ret = NothingReturned
    /\ OthersUnused

CallAmiciObjective ==
    /\ pc = "amici"
    /\ pc' = "simulated all"
    /\ ret' = AmiciObjectiveCall(args.self, args.rdatas, args.sensi_orders,
                                 args.mode, args.amici_imported)
    /\ UNCHANGED <<args, otherVars>>

NextAmici == CallAmiciObjective

SpecAmici == InitAmici /\ [][NextAmici]_vars

RECURSIVE ConcatenateField(_, _, _)
ConcatenateField(rdatas, field, k) ==
    IF k > Len(rdatas) THEN <<>>
    ELSE rdatas[k][field] \o ConcatenateField(rdatas, field, k + 1)

\* The call ran in residual mode with first-order sensitivities and every
\* simulation succeeded
ResidualSensitivitiesReturned ==
    /\ pc = "simulated all"
    /\ ret.raised = ""
    /\ args.mode = MODE_RES
    /\ Holds(args.sensi_orders, 1)
    /\ \A k \in DOMAIN args.rdatas : args.rdatas[k].status = 0

\* C30: in residual mode with first-order sensitivities and all simulations
\* successful, the returned sres is the concatenation, in condition order,
\* of every condition's sres, so its rows match the entries of the
\* concatenated res one to one, for any number of conditions.
C30_SresIsConcatenation ==
    ResidualSensitivitiesReturned =>
        /\ ret.sres = ConcatenateField(args.rdatas, "sres", 1)
        /\ Len(ret.sres) = Len(ConcatenateField(args.rdatas, "res", 1))

\* What the code does instead: with two or more conditions sres is the
\* last condition's sres twice; only a single condition is returned right
SresIsLastConditionTwice ==
    ResidualSensitivitiesReturned =>
        LET last == args.rdatas[Len(args.rdatas)].sres
        IN  ret.sres = IF Len(args.rdatas) = 1 THEN last ELSE last \o last


(***************************************************************************)
(* SpecBases: the interval assignment as the objective functions use it    *)
(***************************************************************************)

\* s = (1, ..., 1), the spline parameters the branches are evaluated on
UnitSpline(N) == [j \in Range(N) |-> Rat(1)]

\* C27: with the interval assignment of _rescale_spline_bases the index
\* i = n[k] - 1 is at most N - 1, so the "i == N" branches are never taken
\* and an observation in the last interval, the maximum included, is
\* evaluated with the linear-interpolation formula.
C27_LastIntervalInterpolates ==
    Rescaled =>
        \A k \in Observations :
            LET i == basesOut.n[k] - 1
                N == basesIn.N
                s == UnitSpline(N)
                line == Interpolate(s, SimOf(k), i, basesOut.delta_c, basesOut.c)
            IN  /\ i <= N - 1
                /\ i # N
                /\ basesOut.n[k] = N =>
                      /\ ObjectiveTerm(s, SimOf(k), Zero, Rat(1), basesOut.n[k],
                                       N, basesOut.delta_c, basesOut.c)
                            = RSq(RSub(Zero, line))
                      /\ MappedSimulation(Xi(s), SimOf(k), basesOut.n[k], N,
                                          basesOut.delta_c, basesOut.c) = line

\* The maximum of a non-degenerate vector sits in the last interval, and
\* another observation lies strictly inside the last interval
C27_Witness ==
    /\ Rescaled
    /\ NonDegenerate
    /\ basesIn.N = 3
    /\ basesOut.n[ArgMax(basesIn.sim_all)] = 3
    /\ \E k \in Observations :
          /\ ~IsExtreme(k)
          /\ basesOut.n[k] = 3
          /\ RLt(basesOut.c[1], SimOf(k))

(***************************************************************************)
(* SplineInnerSolver.calculate_gradients: one pass of the loop over the    *)
(* groups, for any x_inner_opt.  calculate_ds_dtheta is a call whose       *)
(* returned vector s_dot is an input of the pass.                          *)
(***************************************************************************)

\* (mutant) a test that never finds a component of mu
NpAnyNever(v) == FALSE

\* np.any(v)
NpAny(v) == \E j \in DOMAIN v : v[j] # Zero

RECURSIVE DotLoop(_, _, _)
DotLoop(a, b, len) ==
    IF len = 0 THEN Zero
    ELSE RAdd(DotLoop(a, b, len - 1), RMul(a[len - 1], b[len - 1]))

\* a.dot(b) of two vectors of one length
Dot(a, b) == DotLoop(a, b, Cardinality(DOMAIN a))

\* mu of the pass: calculate_inner_gradient at s
MuAt(group_idx, s) ==
    LET g     == GradientGroupDict(group_idx + 1)
        N     == g.group_dict.n_spline_pars
        bases == RescaleSplineBases(g.snapshot.current_simulation, N)
    IN  CalculateInnerGradient(s, g.snapshot.current_simulation,
            g.group_dict.datapoints, g.snapshot.noise_parameters, N,
            bases.delta_c, bases.c, IntervalsPerSim(bases))

\* df_dyk of the pass
DfDykAt(group_idx, s, sy_for_outer_parameter) ==
    LET g      == GradientGroupDict(group_idx + 1)
        N      == g.group_dict.n_spline_pars
        sy_all == ExtractExpdataUsingMask(sy_for_outer_parameter,
                                          g.group_dict.expdata_mask)
        bases  == RescaleSplineBases(g.snapshot.current_simulation, N)
        dot    == CalculateSplineBasesGradient(g.snapshot.current_simulation,
                                               sy_all, N)
    IN  CalculateDfDyk(g.snapshot.current_simulation, sy_all,
            g.group_dict.datapoints, g.snapshot.noise_parameters, s, N,
            bases.delta_c, dot.delta_c_dot, bases.c, dot.c_dot,
            IntervalsPerSim(bases))

\* The pass from "grad" on: ds_dtheta_called records the call of
\* calculate_ds_dtheta, s_dot is what that call returns
GroupPass(grad, group_idx, s, sy_for_outer_parameter, s_dot) ==
    LET mu        == MuAt(group_idx, s)
        implicit  == IF NpAny(mu) THEN RAdd(grad, Dot(mu, s_dot)) ELSE grad
    IN  [ ds_dtheta_called |-> NpAny(mu),
          grad |-> RAdd(implicit, DfDykAt(group_idx, s, sy_for_outer_parameter)) ]

(***************************************************************************)
(* SpecGroupPass                                                           *)
(***************************************************************************)

\* x_inner_opt[group_idx]["x"]: the optimum (1/2, 1) of both groups, and
\* points where the inner gradient does not vanish
PassSplines ==
    { (0 :> Q(1, 2) @@ 1 :> Rat(1)), (0 :> Zero @@ 1 :> Rat(1)),
      (0 :> Rat(1) @@ 1 :> Rat(1)), (0 :> Q(1, 2) @@ 1 :> Zero) }

\* What calculate_ds_dtheta may return for two spline parameters
PassSDots == [Range(2) -> {Zero, Rat(1), Q(-1, 2)}]

GroupPassInputs ==
    [ grad : {Zero, Rat(1)},
      group_idx : Range(Len(GradientGroups)),
      s : PassSplines,
      sy_for_outer_parameter : [1 .. 2 -> SensitivityArrays],
      s_dot : PassSDots ]

InitGroupPass ==
    /\ pc = "group"
    /\ args \in GroupPassInputs
    /\ ret = [ds_dtheta_called |-> FALSE, grad |-> Zero]
    /\ OthersUnused

CallGroupPass ==
    /\ pc = "group"
    /\ pc' = "group done"
    /\ ret' = GroupPass(args.grad, args.group_idx, args.s,
                        args.sy_for_outer_parameter, args.s_dot)
    /\ UNCHANGED <<args, otherVars>>

NextGroupPass == CallGroupPass

SpecGroupPass == InitGroupPass /\ [][NextGroupPass]_vars

PassMu == MuAt(args.group_idx, args.s)

PassDfDyk == DfDykAt(args.group_idx, args.s, args.sy_for_outer_parameter)

\* What the pass added to grad
Contribution == RSub(ret.grad, args.grad)

\* C25: for a group whose mu is zero in every component calculate_ds_dtheta
\* is not called and the group adds exactly calculate_df_dyk to the outer
\* gradient; if a component of mu is not zero it is called and the group
\* adds mu . s_dot + calculate_df_dyk.
C25_ImplicitTermOnlyWhenMuNonZero ==
    pc = "group done" =>
        IF \A j \in DOMAIN PassMu : PassMu[j] = Zero
        THEN /\ ~ret.ds_dtheta_called
             /\ Contribution = PassDfDyk
        ELSE /\ ret.ds_dtheta_called
             /\ Contribution = RAdd(Dot(PassMu, args.s_dot), PassDfDyk)

\* A pass with a non-zero mu whose implicit term changes the contribution
C25_Witness ==
    /\ pc = "group done"
    /\ ret.ds_dtheta_called
    /\ Dot(PassMu, args.s_dot) # Zero
    /\ PassDfDyk # Zero
    /\ Contribution # PassDfDyk

\* A pass at the optimum, where the implicit term is skipped
SkippedAtOptimum ==
    /\ pc = "group done"
    /\ ~ret.ds_dtheta_called
    /\ PassDfDyk # Zero
    /\ args.s_dot[0] # Zero

(***************************************************************************)
(* SpecObj: the objective against the spline mapping                       *)
(***************************************************************************)

\* m of the evaluated group: get_spline_mapped_simulations at objIn.s
MappedOfGroup ==
    GetSplineMappedSimulations(objIn.s, objIn.sim_all, objIn.N,
                               objOut.delta_c, objOut.c, objIn.n)

\* sum over the first k observations of (z - m)^2 / sigma^2
RECURSIVE WeightedSquares(_, _, _, _)
WeightedSquares(k, z, m, sigma) ==
    IF k = 0 THEN Zero
    ELSE RAdd(WeightedSquares(k - 1, z, m, sigma),
              RDiv(RSq(RSub(z[k], m[k])), RSq(sigma[k])))

\* C26: for every s, data and interval assignment with n[k] in 1..N,
\* calculate_objective_function equals one half of the sum over the
\* observations of (z_k - m_k)^2 / sigma_k^2, with m the vector that
\* get_spline_mapped_simulations returns for the same s, simulation,
\* breakpoints and interval assignment.
C26_ObjectiveAgreesWithMapping ==
    Evaluated =>
        objOut.obj = RDiv(WeightedSquares(Len(objIn.sim_all),
                                          objIn.measurements, MappedOfGroup,
                                          objIn.sigma),
                          Rat(2))

\* Two observations, one in an inner and one in the last interval, mapped
\* off their measurements by an interpolated height
C26_Witness ==
    /\ Evaluated
    /\ objIn.N = 3
    /\ Len(objIn.sim_all) = 2
    /\ objIn.n = <<2, 3>>
    /\ objIn.sim_all = <<Rat(1), Rat(3)>>
    /\ objIn.s = (0 :> Rat(1) @@ 1 :> Rat(1) @@ 2 :> Rat(1))
    /\ MappedOfGroup = <<Rat(1), Rat(3)>>
    /\ objIn.measurements = <<Rat(0), Rat(2)>>
    /\ objIn.sigma = <<Rat(1), Rat(2)>>
    /\ objOut.obj = Q(5, 8)

(***************************************************************************)
(* SplineInnerSolver.solve and calculate_gradients called in turn on one   *)
(* problem (the two groups of GradientGroups).  args.groups holds the two  *)
(* group_dict entries solve() writes, args.last_solve the arguments of the *)
(* most recent solve, args.request those of the most recent                *)
(* calculate_gradients.                                                    *)
(***************************************************************************)

\* mu of one group, from the entries of its group_dict
GroupMu(group_dict, entries, s) ==
    LET N     == group_dict.n_spline_pars
        bases == RescaleSplineBases(entries.current_simulation, N)
    IN  CalculateInnerGradient(s, entries.current_simulation,
            group_dict.datapoints, entries.noise_parameters, N,
            bases.delta_c, bases.c, IntervalsPerSim(bases))

\* df_dyk of one group, from the entries of its group_dict
GroupDfDyk(group_dict, entries, s, sy_for_outer_parameter) ==
    LET N      == group_dict.n_spline_pars
        sy_all == ExtractExpdataUsingMask(sy_for_outer_parameter,
                                          group_dict.expdata_mask)
        bases  == RescaleSplineBases(entries.current_simulation, N)
        dot    == CalculateSplineBasesGradient(entries.current_simulation,
                                               sy_all, N)
    IN  CalculateDfDyk(entries.current_simulation, sy_all,
            group_dict.datapoints, entries.noise_parameters, s, N,
            bases.delta_c, dot.delta_c_dot, bases.c, dot.c_dot,
            IntervalsPerSim(bases))

\* grad after the passes over the first group_count groups
RECURSIVE GroupsLoopOn(_, _, _, _, _)
GroupsLoopOn(group_count, groups, inner_opt, sy_for_outer_parameter, s_dot) ==
    IF group_count = 0 THEN Zero
    ELSE LET group_dict == GradientGroups[group_count]
             entries    == groups[group_count]
             x          == inner_opt[group_count].x
             mu         == GroupMu(group_dict, entries, x)
             before     == GroupsLoopOn(group_count - 1, groups, inner_opt,
                                        sy_for_outer_parameter, s_dot)
             implicit   == IF NpAny(mu) THEN RAdd(before, Dot(mu, s_dot))
                           ELSE before
         IN  RAdd(implicit,
                  GroupDfDyk(group_dict, entries, x, sy_for_outer_parameter))

\* What solve(sim, sigma) leaves in the group dictionaries
GroupsAfterSolve(sim, sigma) ==
    [group \in DOMAIN GradientGroups |->
        Snapshot(GradientGroups[group], sim, sigma)]

\* (mutant) a gradient computed from the sim and sigma it is called with
GradientOfArguments(groups, inner_opt, sim, sigma, sy_for_outer_parameter, s_dot) ==
    LET entries == GroupsAfterSolve(sim, sigma)
    IN  [ sim_all |-> [g \in DOMAIN entries |-> entries[g].current_simulation],
          sigma   |-> [g \in DOMAIN entries |-> entries[g].noise_parameters],
          grad    |-> GroupsLoopOn(Len(entries), entries, inner_opt,
                                   sy_for_outer_parameter, s_dot) ]

\* calculate_gradients for one outer parameter: the sim_all and sigma each
\* group's pass computes with, and the gradient entry it writes
GradientOfOuterParameter(groups, inner_opt, sim, sigma, sy_for_outer_parameter, s_dot) ==
    [ sim_all |-> [g \in DOMAIN groups |-> groups[g].current_simulation],
      sigma   |-> [g \in DOMAIN groups |-> groups[g].noise_parameters],
      grad    |-> GroupsLoopOn(Len(groups), groups, inner_opt,
                               sy_for_outer_parameter, s_dot) ]

(***************************************************************************)
(* SpecInterleave                                                          *)
(***************************************************************************)
InterleaveSims ==
    { GradientSim,
      << RatSeq(<<4, 2, 0>>), RatSeq(<<0, 2, 4>>) >>,
      << RatSeq(<<0, 4, 2>>), RatSeq(<<2, 0, 4>>) >> }

InterleaveSigmas ==
    { GradientSigma, << RatSeq(<<2, 2, 2>>), RatSeq(<<2, 2, 2>>) >> }

InterleaveSDots == { (0 :> Zero @@ 1 :> Zero), (0 :> Rat(1) @@ 1 :> Q(-1, 2)) }

GradientRequests ==
    [ sim : InterleaveSims, sigma : InterleaveSigmas,
      sy_for_outer_parameter : [1 .. 2 -> SensitivityArrays],
      s_dot : InterleaveSDots ]

NoGradient == [sim_all |-> <<>>, sigma |-> <<>>, grad |-> Zero]

InitInterleave ==
    /\ pc = "problem built"
    /\ args = [groups |-> <<>>, last_solve |-> <<>>, request |-> <<>>]
    /\ ret = NoGradient
    /\ OthersUnused

\* solve(problem, sim, sigma), as far as the group dictionaries go
InterleavedSolve ==
    \E sim \in InterleaveSims, sigma \in InterleaveSigmas :
        /\ pc' = "solve returned"
        /\ args' = [ groups     |-> GroupsAfterSolve(sim, sigma),
                     last_solve |-> << [sim |-> sim, sigma |-> sigma] >>,
                     request    |-> <<>> ]
        /\ ret' = NoGradient
        /\ UNCHANGED otherVars

\* calculate_gradients(problem, x_inner_opt, sim, sigma, sy, ...) once the
\* problem has been solved
InterleavedGradients ==
    \E request \in GradientRequests :
        /\ args.last_solve # <<>>
        /\ pc' = "gradients returned"
        /\ args' = [args EXCEPT !.request = << request >>]
        /\ ret' = GradientOfOuterParameter(args.groups, GradientInnerOpt,
                      request.sim, request.sigma,
                      request.sy_for_outer_parameter, request.s_dot)
        /\ UNCHANGED otherVars

NextInterleave == InterleavedSolve \/ InterleavedGradients

SpecInterleave == InitInterleave /\ [][NextInterleave]_vars

LastSolve == args.last_solve[1]

Request == args.request[1]

\* The gradient entry computed from given simulations and noise
GradientFrom(sim, sigma) ==
    GroupsLoopOn(Len(GradientGroups), GroupsAfterSolve(sim, sigma),
                 GradientInnerOpt, Request.sy_for_outer_parameter,
                 Request.s_dot)

\* C28: whatever sim and sigma calculate_gradients is called with, the
\* simulation and the noise every group's pass computes with, and so the
\* gradient, are those of the last solve() before it on that problem.
C28_GradientUsesLastSolve ==
    pc = "gradients returned" =>
        /\ \A g \in DOMAIN GradientGroups :
              /\ ret.sim_all[g] =
                     ExtractExpdataUsingMask(LastSolve.sim,
                                             GradientGroups[g].expdata_mask)
              /\ ret.sigma[g] =
                     ExtractExpdataUsingMask(LastSolve.sigma,
                                             GradientGroups[g].expdata_mask)
        /\ ret.grad = GradientFrom(LastSolve.sim, LastSolve.sigma)

\* A gradient call whose own sim and sigma differ from those of the last
\* solve and would have given another gradient
C28_Witness ==
    /\ pc = "gradients returned"
    /\ Request.sim # LastSolve.sim
    /\ Request.sigma # LastSolve.sigma
    /\ ret.grad # Zero
    /\ ret.grad # GradientFrom(Request.sim, Request.sigma)

====
